---- MODULE Spec2Model ----
(***************************************************************************)
(* yatogm: the fetch - dedupe - forward pipeline.                          *)
(*                                                                         *)
(* One process invocation (a "run") loads the state tracker, then for      *)
(* each configured Yahoo mailbox runs Worker.processMailbox: Dial, Login,  *)
(* UIDList, and per message IsFetched / Retrieve / Send / MarkFetched /    *)
(* Delete, with Client.Quit deferred right after a successful Dial.        *)
(* The external scheduler starts any number of runs, one after the other,  *)
(* and a process can be killed at any step.  The POP3 server flags a       *)
(* message on DELE and expunges the flagged messages when it receives      *)
(* QUIT; a dropped connection discards the flags.  The server issues       *)
(* distinct unique identifiers within one maildrop.                        *)
(***************************************************************************)
EXTENDS Integers, Sequences, FiniteSets, TLC

\* ------------------------------------------------------------------ bounds
MaxMsgs == 2        \* messages initially on the server, all maildrops together
MaxBatch == 2       \* length of the uids argument of MarkBatchFetched
MaxLines == 2       \* lines of a message retrieved under SpecRetr
MaxLineLen == 2     \* characters of a message line, CRLF not counted
MaxHdrs == 2        \* header fields of a message handed to Send
MaxSends == 2       \* calls of Send on the same message

\* ----------------------------------------------------------- configuration
Yahoo == <<"m1", "m2">>                       \* cfg.Yahoo, in order
Mailboxes == {Yahoo[k] : k \in DOMAIN Yahoo}
UIDs == 1..MaxMsgs

VARIABLES
    pc,             \* position of the process; "stopped" = no process
    mbIdx,          \* index i of the Run loop over cfg.Yahoo
    data,           \* Tracker.data.Mailboxes : mailbox -> set of UIDs
    file,           \* content under the canonical state path
    tmp,            \* content under the ".tmp" path
    server,         \* maildrop of each mailbox: sequence of UIDs
    conn,           \* POP3 transport: "none", "open", "closed", "dropped"
    flagged,        \* message numbers the server flagged in this session
    uidMap,         \* result of UIDList: message number -> UID
    msgNums,        \* sorted message numbers
    idx,            \* position of the message loop in msgNums
    fetched,        \* named result of processMailbox
    errors,         \* named result of processMailbox
    totalFetched,   \* Run: totalFetched
    totalErrors,    \* Run: totalErrors
    exitCode,       \* exit code of the last finished process, -1 if none
    \* history variables, used only by the properties
    ops,            \* operations issued in this mailbox session, in order
    quitDelivered,  \* the server received the QUIT of this session
    skipped,        \* message numbers skipped because IsFetched was true
    abort,          \* why processMailbox returned early, or "none"
    sentNow,        \* <<mailbox, uid>> for which Send returned nil, this run
    sentBefore,     \* the same, in the runs before this one
    seenInStore,    \* <<mailbox, uid>> that IsFetched found in the store
                    \* when the message was visited, in any run
    committed,      \* <<mailbox, uid>> expunged by the server
    lastRenamed,    \* content of the last save whose rename completed
    loaded,         \* Tracker.data as NewTracker returned it in this run
    lastRun         \* per mailbox: what the previous run listed for it and
                    \* whether it recorded all of it; replaced by this
                    \* run's when processMailbox returns; kept only in
                    \* the behaviours of SpecIdem
VARIABLES
    \* the state tracker driven call by call (SpecStore)
    call            \* the tracker call in progress, with its arguments, or
                    \* the one that has just returned, with its results
VARIABLES
    \* one Client.Retrieve call, line by line (SpecRetr)
    retr            \* the server's stream, the position of the reader, the
                    \* strings.Builder and the result
VARIABLES
    \* one pop3.Client driven call by call (SpecSess)
    sess            \* Client.conn and the call in progress: the commands it
                    \* sent, the lines it read, its result
VARIABLES
    \* Sender.Send called twice on one raw message (SpecSend)
    xf              \* the parsed message and the bytes built by each call
VARIABLES
    \* the state tracker on a state file it did not write itself (SpecDoc)
    trk             \* the document in the file, Tracker.data as Go holds it,
                    \* the last call and how it ended

vars == <<pc, mbIdx, data, file, tmp, server, conn, flagged, uidMap,
          msgNums, idx, fetched, errors, totalFetched, totalErrors, exitCode,
          ops, quitDelivered, skipped, abort, sentNow, sentBefore, seenInStore,
          committed, lastRenamed, loaded, lastRun, call, retr, sess, xf, trk>>

procVars == <<mbIdx, totalFetched, totalErrors, exitCode, loaded>>
storeVars == <<data, file, tmp, lastRenamed>>
popVars == <<server, conn, flagged, committed, quitDelivered>>
listVars == <<uidMap, msgNums>>
runLog == <<lastRun, sentBefore, seenInStore>>
apiVars == <<call>>
wireVars == <<retr, sess, xf, trk>>
pipeVars == <<mbIdx, server, conn, flagged, uidMap, msgNums, idx, fetched,
              errors, totalFetched, totalErrors, exitCode, ops, quitDelivered,
              skipped, abort, sentNow, sentBefore, seenInStore, committed,
              lastRun>>

\* ------------------------------------------------------------ state tracker
EmptyMap == [x \in {} |-> {}]

Absent == [kind |-> "absent", mailboxes |-> EmptyMap]
Partial == [kind |-> "partial", mailboxes |-> EmptyMap]
\* a complete document left under the temporary name by a save that did not
\* finish; SpecStore does not track what it holds
LeftOver == [kind |-> "leftover", mailboxes |-> EmptyMap]

\* json.MarshalIndent(t.data): the whole current state as one document
Marshal(d) == [kind |-> "doc", mailboxes |-> d]

load_fresh(f, d) == [err |-> "nil", data |-> d]
load_failOnCorrupt(f, d) ==
    IF f.kind = "absent" THEN [err |-> "notexist", data |-> d]
    ELSE IF f.kind = "partial" THEN [err |-> "unmarshal", data |-> d]
    ELSE [err |-> "nil", data |-> f.mailboxes]
\* Tracker.load: os.ReadFile, json.Unmarshal, keep sd when Mailboxes != nil
load(f, d) ==
    IF f.kind = "absent" THEN [err |-> "notexist", data |-> d]
    ELSE IF f.kind = "partial" THEN [err |-> "nil", data |-> d]
    ELSE [err |-> "nil", data |-> f.mailboxes]

\* NewTracker: empty Mailboxes map, then load; a missing file starts fresh
NewTracker(f) == load(f, EmptyMap).data

IsFetched_anyMailbox(d, m, u) == \E x \in DOMAIN d : u \in d[x]
IsFetched_never(d, m, u) == FALSE
\* Tracker.IsFetched: the mailbox entry exists and FetchedUIDs[uid] is set
IsFetched(d, m, u) == m \in DOMAIN d /\ u \in d[m]

Insert_overwrite(d, m, u) ==
    [x \in DOMAIN d \cup {m} |-> IF x = m THEN {u} ELSE d[x]]
Insert_everyMailbox(d, m, u) ==
    [x \in DOMAIN d \cup {m} |-> (IF x \in DOMAIN d THEN d[x] ELSE {}) \cup {u}]
\* MarkFetched, lines 65-73: create the mailbox entry, set FetchedUIDs[uid]
Insert(d, m, u) ==
    [x \in DOMAIN d \cup {m} |->
        IF x = m THEN (IF m \in DOMAIN d THEN d[m] ELSE {}) \cup {u}
        ELSE d[x]]

\* UIDs recorded for mailbox m in a file content
FileUIDs(f, m) ==
    IF f.kind = "doc" /\ m \in DOMAIN f.mailboxes THEN f.mailboxes[m] ELSE {}

\* ------------------------------------------------------------- POP3 client
Resp == {"ok", "err", "malformed", "ioerr"}

\* Client.readResponse: error on a read failure and on "-ERR"; a line with
\* "+OK" and a line with neither prefix are both returned without error
readResponse(r) == r \in {"ok", "malformed"}

RECURSIVE SortInts_descending(_)
SortInts_descending(S) ==
    IF S = {} THEN << >>
    ELSE LET hi == CHOOSE x \in S : \A y \in S : x >= y
         IN <<hi>> \o SortInts_descending(S \ {hi})

RECURSIVE SortInts(_)
\* sort.Ints over the keys of uidMap
SortInts(S) ==
    IF S = {} THEN << >>
    ELSE LET lo == CHOOSE x \in S : \A y \in S : x <= y
         IN <<lo>> \o SortInts(S \ {lo})

RECURSIVE Expunge(_, _, _)
\* the maildrop after the server removed the flagged message numbers
Expunge(s, F, k) ==
    IF k > Len(s) THEN << >>
    ELSE (IF k \in F THEN << >> ELSE <<s[k]>>) \o Expunge(s, F, k + 1)

Range(s) == {s[k] : k \in DOMAIN s}

Ev(o, n, k) == [op |-> o, num |-> n, ok |-> k]

CurMb == Yahoo[mbIdx]

\* no Retrieve call has been made
NoRetr == [kind |-> "none", msg |-> << >>, wire |-> << >>, resp |-> "none",
           st |-> "off", pos |-> 1, buf |-> << >>, err |-> "none",
           out |-> << >>]

\* no Client exists and no call is in progress
NoSess == [conn |-> "none", op |-> "none", st |-> "idle", sent |-> << >>,
           lines |-> << >>, wire |-> << >>, pos |-> 1, result |-> << >>,
           isNil |-> TRUE, err |-> "none"]

\* no message has been handed to Send
NoXf == [st |-> "off", parsable |-> FALSE, hdrs |-> << >>, outs |-> << >>]

\* map[string]*MailboxState: nil, or its entries
NilMailboxes == [isNil |-> TRUE, entries |-> EmptyMap]
MakeMailboxes(e) == [isNil |-> FALSE, entries |-> e]

\* no state file has been handed to NewTracker
NoTrk == [st |-> "off", doc |-> NilMailboxes, data |-> NilMailboxes,
          op |-> "none", m |-> "", uids |-> << >>, out |-> "none",
          ret |-> FALSE]

\* no tracker call has been made
NoCall == [op |-> "none", m |-> "", uids |-> << >>, err |-> "none",
           ret |-> FALSE, stats |-> EmptyMap, writes |-> 0]

NoRec == [ended |-> "no", listing |-> << >>, recorded |-> FALSE, failed |-> {}]
Untracked == [ended |-> "untracked", listing |-> << >>, recorded |-> FALSE,
              failed |-> {}]

\* mailboxes whose processMailbox has not returned in this run
NotReturned == {Yahoo[k] : k \in {j \in DOMAIN Yahoo : j >= mbIdx}}

\* --------------------------------------------------------------------- Init
InitialMaildrop(n) == [k \in 1..n |-> k]

RECURSIVE TotalLen(_, _)
TotalLen(s, k) == IF k = 0 THEN 0 ELSE Len(s[Yahoo[k]]) + TotalLen(s, k - 1)

Init ==
    /\ pc = "stopped"
    /\ mbIdx = 1
    /\ data = EmptyMap
    /\ file = Absent
    /\ tmp = Absent
    /\ server \in {s \in [Mailboxes -> {InitialMaildrop(n) : n \in 0..MaxMsgs}] :
                       TotalLen(s, Len(Yahoo)) <= MaxMsgs}
    /\ conn = "none"
    /\ flagged = {}
    /\ uidMap = << >>
    /\ msgNums = << >>
    /\ idx = 1
    /\ fetched = 0
    /\ errors = 0
    /\ totalFetched = 0
    /\ totalErrors = 0
    /\ exitCode = -1
    /\ ops = << >>
    /\ quitDelivered = FALSE
    /\ skipped = {}
    /\ abort = "none"
    /\ sentNow = {}
    /\ sentBefore = {}
    /\ seenInStore = {}
    /\ committed = {}
    /\ lastRenamed = Absent
    /\ loaded = EmptyMap
    /\ lastRun = [m \in Mailboxes |-> Untracked]
    /\ call = NoCall
    /\ retr = NoRetr
    /\ sess = NoSess
    /\ xf = NoXf
    /\ trk = NoTrk


\* ------------------------------------------------- Worker.processMailbox
\* lines 125-129: a Retrieve error counts one error and continues the loop
AfterRetrieve_noContinue(ok) == "send"
AfterRetrieve(ok) == IF ok THEN "send" ELSE "loop"

\* lines 132-136: a Send error counts one error and continues the loop
AfterSend_noContinue(ok) == "mark"
AfterSend_noRecord(ok) == IF ok THEN "dele" ELSE "loop"
AfterSend(ok) == IF ok THEN "mark" ELSE "loop"

\* lines 139-143: a MarkFetched error counts one error and continues
AfterMarkFetched_noContinue(ok) == "dele"
AfterMarkFetched(ok) == IF ok THEN "dele" ELSE "loop"

\* lines 88-91: a Login error returns (0, 1); the deferred Quit then runs
AfterLogin_noReturn(ok) == "uidl"
AfterLogin(ok) == IF ok THEN "uidl" ELSE "quit"

NextIdx_retry(i, p) == i
\* "continue" at lines 128, 135, 142 and 149 moves the range loop of line
\* 112 to the next message number
NextIdx(i, p) == IF p = "loop" THEN i + 1 ELSE i

ErrCount_twice(ok) == IF ok THEN 0 ELSE 2
\* errors++ on the error branch of a step
ErrCount(ok) == IF ok THEN 0 ELSE 1

\* save, lines 143-146: os.WriteFile(tmpFile, ...) leaves content c under
\* the temporary name and does not touch the canonical name
WriteTemp_inPlace(f, t, c) == [file |-> c, tmp |-> t]
WriteTemp_both(f, t, c) == [file |-> c, tmp |-> c]
WriteTemp(f, t, c) == [file |-> f, tmp |-> c]

Rename_removeOnly(f, t) == [file |-> f, tmp |-> Absent]
\* save, line 148: os.Rename(tmpFile, filePath) replaces the canonical file
Rename(f, t) == [file |-> t, tmp |-> Absent]

\* lines 146-152: fetched++ is reached only when Delete returned nil
CountFetched_beforeDelete(f, ok) == f + 1
CountFetched(f, ok) == IF ok THEN f + 1 ELSE f

\* Run, lines 64-67, and main, lines 56-59: an error, and os.Exit(1), when
\* totalErrors > 0
RunResult_moreThanOne(te) == IF te > 1 THEN 1 ELSE 0
RunResult(te) == IF te > 0 THEN 1 ELSE 0

CurNum == msgNums[idx]
CurUID == uidMap[CurNum]

ResetSession ==
    /\ conn' = "none"
    /\ flagged' = {}
    /\ uidMap' = << >>
    /\ msgNums' = << >>
    /\ idx' = 1
    /\ fetched' = 0
    /\ errors' = 0
    /\ ops' = << >>
    /\ quitDelivered' = FALSE
    /\ skipped' = {}
    /\ abort' = "none"

\* main, lines 47-56: NewTracker loads the state file, then Worker.Run
StartRun ==
    /\ UNCHANGED wireVars
    /\ UNCHANGED apiVars
    /\ pc = "stopped"
    /\ data' = NewTracker(file)
    /\ loaded' = NewTracker(file)
    /\ exitCode' = -1
    /\ pc' = "dial"
    /\ UNCHANGED <<mbIdx, totalFetched, totalErrors, file, tmp, lastRenamed,
                   popVars, listVars, idx, fetched, errors, ops, skipped,
                   abort, sentNow, runLog>>

\* the process is gone, and its memory with it
ProcessEnd ==
    /\ pc' = "stopped"
    /\ data' = EmptyMap
    /\ loaded' = EmptyMap
    /\ mbIdx' = 1
    /\ totalFetched' = 0
    /\ totalErrors' = 0
    /\ ResetSession
    /\ sentBefore' = sentBefore \cup sentNow
    /\ UNCHANGED seenInStore
    /\ sentNow' = {}
    /\ lastRun' = [m \in Mailboxes |->
                      IF lastRun[m] = Untracked THEN Untracked
                      ELSE IF pc # "finish" /\ m \in NotReturned THEN NoRec
                      ELSE lastRun[m]]

\* pop3.Dial and lines 76-85 of processMailbox
Dial ==
    /\ UNCHANGED wireVars
    /\ UNCHANGED apiVars
    /\ pc = "dial"
    /\ \E connected \in BOOLEAN, greeting \in Resp :
        IF ~connected
        THEN /\ conn' = "none"
             /\ ops' = ops
             /\ abort' = "connect"
             /\ fetched' = 0
             /\ errors' = 1
             /\ pc' = "returned"
        ELSE IF ~readResponse(greeting)
        THEN /\ conn' = "closed"
             /\ ops' = Append(ops, Ev("CLOSE", 0, TRUE))
             /\ abort' = "connect"
             /\ fetched' = 0
             /\ errors' = 1
             /\ pc' = "returned"
        ELSE /\ conn' = "open"
             /\ pc' = "login"
             /\ UNCHANGED <<ops, abort, fetched, errors>>
    /\ UNCHANGED <<procVars, storeVars, server, flagged, committed,
                   quitDelivered, listVars, idx, skipped, sentNow, runLog>>

\* Client.Login and lines 88-91 of processMailbox
Login ==
    /\ UNCHANGED wireVars
    /\ UNCHANGED apiVars
    /\ pc = "login"
    /\ \E u \in Resp, p \in Resp :
        LET okU == readResponse(u)
            okP == readResponse(p)
            ok == okU /\ okP
        IN /\ ops' = ops \o (IF okU
                             THEN <<Ev("USER", 0, TRUE), Ev("PASS", 0, okP)>>
                             ELSE <<Ev("USER", 0, FALSE)>>)
           /\ pc' = AfterLogin(ok)
           /\ IF ok
              THEN UNCHANGED <<abort, fetched, errors>>
              ELSE /\ abort' = "login"
                   /\ fetched' = 0
                   /\ errors' = 1
    /\ UNCHANGED <<procVars, storeVars, popVars, listVars, idx, skipped,
                   sentNow, runLog>>

\* Client.UIDList and lines 96-109 of processMailbox
UIDList ==
    /\ UNCHANGED wireVars
    /\ UNCHANGED apiVars
    /\ pc = "uidl"
    /\ \E r \in Resp, blockOk \in BOOLEAN :
        LET ok == readResponse(r) /\ blockOk
        IN /\ ops' = Append(ops, Ev("UIDL", 0, ok))
           /\ IF ok
              THEN /\ uidMap' = server[CurMb]
                   /\ msgNums' = SortInts(DOMAIN server[CurMb])
                   /\ idx' = 1
                   /\ pc' = "loop"
                   /\ UNCHANGED <<abort, fetched, errors>>
              ELSE /\ abort' = "uidl"
                   /\ fetched' = 0
                   /\ errors' = 1
                   /\ pc' = "quit"
                   /\ UNCHANGED <<listVars, idx>>
    /\ UNCHANGED <<procVars, storeVars, popVars, skipped, sentNow, runLog>>

LoopDone_noQuit ==
    /\ UNCHANGED wireVars
    /\ UNCHANGED apiVars
    /\ pc = "loop"
    /\ idx > Len(msgNums)
    /\ pc' = "returned"
    /\ UNCHANGED <<procVars, storeVars, popVars, listVars, idx, fetched,
                   errors, ops, skipped, abort, sentNow, runLog>>

\* line 112 falls out of the loop; lines 156-157 return (fetched, errors)
\* and the deferred Quit runs
LoopDone ==
    /\ UNCHANGED wireVars
    /\ UNCHANGED apiVars
    /\ pc = "loop"
    /\ idx > Len(msgNums)
    /\ pc' = "quit"
    /\ UNCHANGED <<procVars, storeVars, popVars, listVars, idx, fetched,
                   errors, ops, skipped, abort, sentNow, runLog>>

\* lines 116-119: an already-fetched message is skipped
Skip ==
    /\ UNCHANGED wireVars
    /\ UNCHANGED apiVars
    /\ pc = "loop"
    /\ idx <= Len(msgNums)
    /\ IsFetched(data, CurMb, CurUID)
    /\ skipped' = skipped \cup {CurNum}
    /\ seenInStore' = seenInStore \cup {<<CurMb, CurUID>>}
    /\ idx' = idx + 1
    /\ UNCHANGED <<pc, procVars, storeVars, popVars, listVars, fetched,
                   errors, ops, abort, sentNow, lastRun, sentBefore>>

Visit_always ==
    /\ UNCHANGED wireVars
    /\ UNCHANGED apiVars
    /\ pc = "loop"
    /\ idx <= Len(msgNums)
    /\ pc' = "retr"
    /\ UNCHANGED <<procVars, storeVars, popVars, listVars, idx, fetched,
                   errors, ops, skipped, abort, sentNow, runLog>>

\* lines 116-121: an unseen message goes on to Retrieve
Visit ==
    /\ UNCHANGED wireVars
    /\ UNCHANGED apiVars
    /\ pc = "loop"
    /\ idx <= Len(msgNums)
    /\ ~IsFetched(data, CurMb, CurUID)
    /\ pc' = "retr"
    /\ UNCHANGED <<procVars, storeVars, popVars, listVars, idx, fetched,
                   errors, ops, skipped, abort, sentNow, runLog>>

\* Client.Retrieve and lines 124-129
Retrieve ==
    /\ UNCHANGED wireVars
    /\ UNCHANGED apiVars
    /\ pc = "retr"
    /\ \E r \in Resp, bodyOk \in BOOLEAN :
        LET ok == readResponse(r) /\ bodyOk
        IN /\ ops' = Append(ops, Ev("RETR", CurNum, ok))
           /\ pc' = AfterRetrieve(ok)
           /\ errors' = errors + ErrCount(ok)
           /\ idx' = NextIdx(idx, AfterRetrieve(ok))
    /\ UNCHANGED <<procVars, storeVars, popVars, listVars, fetched, skipped,
                   abort, sentNow, runLog>>

\* Sender.Send and lines 132-136
Send ==
    /\ UNCHANGED wireVars
    /\ UNCHANGED apiVars
    /\ pc = "send"
    /\ \E ok \in BOOLEAN :
        /\ ops' = Append(ops, Ev("SEND", CurNum, ok))
        /\ sentNow' = IF ok THEN sentNow \cup {<<CurMb, CurUID>>} ELSE sentNow
        /\ pc' = AfterSend(ok)
        /\ errors' = errors + ErrCount(ok)
        /\ idx' = NextIdx(idx, AfterSend(ok))
    /\ UNCHANGED <<procVars, storeVars, popVars, listVars, fetched, skipped,
                   abort, runLog>>

\* the error return of MarkFetched, lines 139-143
MarkFailed ==
    /\ ops' = Append(ops, Ev("MARK", CurNum, FALSE))
    /\ pc' = AfterMarkFetched(FALSE)
    /\ errors' = errors + ErrCount(FALSE)
    /\ idx' = NextIdx(idx, AfterMarkFetched(FALSE))

\* Tracker.MarkFetched up to the write of the temporary file (save, 132-146)
MarkFetched ==
    /\ UNCHANGED wireVars
    /\ UNCHANGED apiVars
    /\ pc = "mark"
    /\ data' = Insert(data, CurMb, CurUID)
    /\ \E out \in {"mkdir", "write", "ok"}, torn \in BOOLEAN :
        \/ /\ out = "mkdir"
           /\ UNCHANGED <<file, tmp>>
           /\ MarkFailed
        \/ /\ out = "write"
           /\ LET w == WriteTemp(file, tmp, IF torn THEN Partial ELSE tmp)
              IN file' = w.file /\ tmp' = w.tmp
           /\ MarkFailed
        \/ /\ out = "ok"
           /\ LET w == WriteTemp(file, tmp, Marshal(data'))
              IN file' = w.file /\ tmp' = w.tmp
           /\ pc' = "rename"
           /\ UNCHANGED <<ops, errors, idx>>
    /\ UNCHANGED <<procVars, lastRenamed, popVars, listVars, fetched, skipped,
                   abort, sentNow, runLog>>

\* Tracker.save, lines 148-152, and the return of MarkFetched
SaveRename ==
    /\ UNCHANGED wireVars
    /\ UNCHANGED apiVars
    /\ pc = "rename"
    /\ \E ok \in BOOLEAN :
        IF ok
        THEN /\ LET w == Rename(file, tmp)
                IN file' = w.file /\ tmp' = w.tmp
             /\ lastRenamed' = tmp
             /\ ops' = Append(ops, Ev("MARK", CurNum, TRUE))
             /\ pc' = AfterMarkFetched(TRUE)
             /\ idx' = NextIdx(idx, AfterMarkFetched(TRUE))
             /\ UNCHANGED errors
        ELSE /\ UNCHANGED <<file, tmp, lastRenamed>>
             /\ MarkFailed
    /\ UNCHANGED <<procVars, data, popVars, listVars, fetched, skipped,
                   abort, sentNow, runLog>>

\* what the server does with DELE and what the client reads: the server
\* flags the message and its answer arrives, arrives garbled or is lost, or
\* it refuses (-ERR), or the command never reaches it
DeleOutcomes ==
    {<<TRUE, "ok">>, <<TRUE, "malformed">>, <<TRUE, "ioerr">>,
     <<FALSE, "err">>, <<FALSE, "ioerr">>}

\* Client.Delete and lines 146-153
Delete ==
    /\ UNCHANGED wireVars
    /\ UNCHANGED apiVars
    /\ pc = "dele"
    /\ \E o \in DeleOutcomes :
        LET ok == readResponse(o[2])
        IN /\ ops' = Append(ops, Ev("DELE", CurNum, ok))
           /\ flagged' = IF o[1] THEN flagged \cup {CurNum} ELSE flagged
           /\ fetched' = CountFetched(fetched, ok)
           /\ errors' = errors + ErrCount(ok)
    /\ idx' = idx + 1
    /\ pc' = "loop"
    /\ UNCHANGED <<procVars, storeVars, server, conn, committed,
                   quitDelivered, listVars, skipped, abort, sentNow, runLog>>

QuitWire_closeOnly(ack) == <<Ev("CLOSE", 0, TRUE)>>
\* Client.Quit, lines 134-135: command("QUIT"), result ignored, conn.Close()
QuitWire(ack) == <<Ev("QUIT", 0, ack), Ev("CLOSE", 0, TRUE)>>

\* the deferred Client.Quit, lines 81-85; a server that receives QUIT
\* expunges the flagged messages
Quit ==
    /\ UNCHANGED wireVars
    /\ UNCHANGED apiVars
    /\ pc = "quit"
    /\ \E delivered \in BOOLEAN, r \in Resp :
        /\ r = "ok" => delivered
        /\ ops' = ops \o QuitWire(readResponse(r))
        /\ quitDelivered' = delivered
        /\ server' = IF delivered
                     THEN [server EXCEPT ![CurMb] = Expunge(@, flagged, 1)]
                     ELSE server
        /\ committed' = IF delivered
                        THEN committed \cup {<<CurMb, uidMap[n]>> : n \in flagged}
                        ELSE committed
    /\ conn' = "closed"
    /\ pc' = "returned"
    /\ UNCHANGED <<procVars, storeVars, flagged, listVars, idx, fetched,
                   errors, skipped, abort, sentNow, runLog>>

\* the UIDs whose Retrieve or Send failed in this session
NotForwarded ==
    {uidMap[ops[k].num] :
        k \in {j \in DOMAIN ops : ops[j].op \in {"RETR", "SEND"} /\ ~ops[j].ok}}

\* true when no Retrieve, Send or MarkFetched failed in this session
AllRecorded ==
    \A k \in DOMAIN ops :
        ops[k].op \in {"RETR", "SEND", "MARK"} => ops[k].ok

\* Worker.Run, lines 48-52: add the mailbox's counts, go to the next mailbox
MailboxReturn ==
    /\ UNCHANGED wireVars
    /\ UNCHANGED apiVars
    /\ pc = "returned"
    /\ totalFetched' = totalFetched + fetched
    /\ totalErrors' = totalErrors + errors
    /\ lastRun' = [lastRun EXCEPT ![CurMb] =
                     IF @ = Untracked THEN Untracked
                     ELSE IF abort = "none"
                     THEN [ended |-> "done", listing |-> uidMap,
                           recorded |-> AllRecorded, failed |-> NotForwarded]
                     ELSE NoRec]
    /\ IF mbIdx < Len(Yahoo)
       THEN /\ mbIdx' = mbIdx + 1
            /\ pc' = "dial"
            /\ ResetSession
       ELSE /\ pc' = "finish"
            /\ UNCHANGED <<mbIdx, conn, flagged, quitDelivered, listVars,
                           idx, fetched, errors, ops, skipped, abort>>
    /\ UNCHANGED <<exitCode, loaded, storeVars, server, committed,
                   sentNow, sentBefore, seenInStore>>

\* Worker.Run, lines 64-67, and main, lines 56-61
RunReturn ==
    /\ UNCHANGED wireVars
    /\ UNCHANGED apiVars
    /\ pc = "finish"
    /\ exitCode' = RunResult(totalErrors)
    /\ ProcessEnd
    /\ UNCHANGED <<file, tmp, lastRenamed, server, committed>>

\* the process is killed: memory is lost, the transport drops without QUIT
\* and the server discards the deletion flags; a kill inside os.WriteFile
\* can leave a torn temporary file
Kill ==
    /\ UNCHANGED wireVars
    /\ UNCHANGED apiVars
    /\ pc \notin {"stopped"}
    /\ exitCode' = 137
    /\ ProcessEnd
    /\ \E torn \in BOOLEAN :
        LET w == IF pc = "mark" /\ torn
                 THEN WriteTemp(file, tmp, Partial)
                 ELSE [file |-> file, tmp |-> tmp]
        IN file' = w.file /\ tmp' = w.tmp
    /\ UNCHANGED <<lastRenamed, server, committed>>

Next ==
    \/ StartRun
    \/ Dial
    \/ Login
    \/ UIDList
    \/ LoopDone
    \/ Skip
    \/ Visit
    \/ Retrieve
    \/ Send
    \/ MarkFetched
    \/ SaveRename
    \/ Delete
    \/ Quit
    \/ MailboxReturn
    \/ RunReturn
    \/ Kill

Spec == Init /\ [][Next]_vars

\* --------------------------------------------------- an unresponsive peer
\* Client.command sets a 30 s deadline on the connection before it writes
\* (line 145), and the reads that follow a command run under it, so a peer
\* that stops answering Login, UIDList, Retrieve, Delete or Quit makes the
\* call fail: the read error of those actions.  The dialer bounds the TCP
\* connect and the TLS handshake.  Two waits have no deadline: Dial reads the
\* greeting before any deadline is set (line 47), and Sender.sendBytes hands
\* the message to net/smtp.SendMail, which dials and converses without one.
Block ==
    /\ UNCHANGED wireVars
    /\ UNCHANGED apiVars
    /\ pc \in {"dial", "send"}
    /\ pc' = "blocked"
    /\ conn' = IF pc = "dial" THEN "open" ELSE conn
    /\ UNCHANGED <<procVars, storeVars, server, flagged, committed,
                   quitDelivered, listVars, idx, fetched, errors, ops,
                   skipped, abort, sentNow, runLog>>

\* the steps of a running process
Progress ==
    \/ Dial
    \/ Login
    \/ UIDList
    \/ LoopDone
    \/ Skip
    \/ Visit
    \/ Retrieve
    \/ Send
    \/ MarkFetched
    \/ SaveRename
    \/ Delete
    \/ Quit
    \/ MailboxReturn
    \/ RunReturn

NextLive ==
    \/ Next
    \/ Block

\* a process that can take a step takes one
SpecLive == Init /\ [][NextLive]_vars /\ WF_vars(Progress)

\* the same program, with the record of the previous run kept per mailbox
InitIdem ==
    /\ pc = "stopped"
    /\ mbIdx = 1
    /\ data = EmptyMap
    /\ file = Absent
    /\ tmp = Absent
    /\ server \in {s \in [Mailboxes -> {InitialMaildrop(n) : n \in 0..MaxMsgs}] :
                       TotalLen(s, Len(Yahoo)) <= MaxMsgs}
    /\ conn = "none"
    /\ flagged = {}
    /\ uidMap = << >>
    /\ msgNums = << >>
    /\ idx = 1
    /\ fetched = 0
    /\ errors = 0
    /\ totalFetched = 0
    /\ totalErrors = 0
    /\ exitCode = -1
    /\ ops = << >>
    /\ quitDelivered = FALSE
    /\ skipped = {}
    /\ abort = "none"
    /\ sentNow = {}
    /\ sentBefore = {}
    /\ seenInStore = {}
    /\ committed = {}
    /\ lastRenamed = Absent
    /\ loaded = EmptyMap
    /\ lastRun = [m \in Mailboxes |-> NoRec]
    /\ call = NoCall
    /\ retr = NoRetr
    /\ sess = NoSess
    /\ xf = NoXf
    /\ trk = NoTrk

SpecIdem == InitIdem /\ [][Next]_vars

\* ------------------------------------------- the state tracker, call by call
\* A process creates a Tracker with NewTracker and then calls IsFetched,
\* MarkFetched, MarkBatchFetched and Stats in any order with any arguments;
\* it can exit or be killed at any point, also inside save.

Batches == UNION {[1..n -> UIDs] : n \in 0..MaxBatch}

\* MarkBatchFetched, lines 83-89: the mailbox entry is created when missing
Ensure(d, m) ==
    [x \in DOMAIN d \cup {m} |-> IF x \in DOMAIN d THEN d[x] ELSE {}]

RECURSIVE InsertFrom(_, _, _, _)
\* MarkBatchFetched, lines 91-93: FetchedUIDs[uid] = true for each uid
InsertFrom(d, m, uids, k) ==
    IF k > Len(uids) THEN d
    ELSE InsertFrom(Insert(d, m, uids[k]), m, uids, k + 1)

InsertBatch_firstOnly(d, m, uids) ==
    IF uids = << >> THEN Ensure(d, m) ELSE Insert(d, m, uids[1])
InsertBatch(d, m, uids) == InsertFrom(Ensure(d, m), m, uids, 1)

\* Tracker.Stats: len(v.FetchedUIDs) for every mailbox entry
Stats(d) == [x \in DOMAIN d |-> Cardinality(d[x])]

\* NewTracker, lines 31-45: os.ReadFile can fail for another reason than
\* "not exist"; that error, like any error of load other than "not exist",
\* is returned and no tracker is created; otherwise the tracker holds what
\* load left in data
NewTrackerCall ==
    /\ UNCHANGED wireVars
    /\ pc = "stopped"
    /\ \E readOk \in BOOLEAN :
        /\ file.kind = "absent" => readOk
        /\ LET l == IF readOk THEN load(file, EmptyMap)
                    ELSE [err |-> "read", data |-> EmptyMap]
           IN IF l.err \in {"nil", "notexist"}
              THEN /\ data' = l.data
                   /\ pc' = "ret"
                   /\ call' = [NoCall EXCEPT !.op = "NewTracker",
                                             !.err = "nil"]
              ELSE /\ UNCHANGED <<data, pc>>
                   /\ call' = [NoCall EXCEPT !.op = "NewTracker",
                                             !.err = l.err]
    /\ UNCHANGED <<file, tmp, lastRenamed, loaded, pipeVars>>

\* Tracker.IsFetched
IsFetchedCall ==
    /\ UNCHANGED wireVars
    /\ pc = "idle"
    /\ \E m \in Mailboxes, u \in UIDs :
        call' = [NoCall EXCEPT !.op = "IsFetched", !.m = m, !.uids = <<u>>,
                               !.err = "nil", !.ret = IsFetched(data, m, u)]
    /\ pc' = "ret"
    /\ UNCHANGED <<storeVars, loaded, pipeVars>>

\* Tracker.Stats
StatsCall ==
    /\ UNCHANGED wireVars
    /\ pc = "idle"
    /\ call' = [NoCall EXCEPT !.op = "Stats", !.err = "nil",
                              !.stats = Stats(data)]
    /\ pc' = "ret"
    /\ UNCHANGED <<storeVars, loaded, pipeVars>>

\* Tracker.save, lines 132-146, entered from call c with t.data already d:
\* MkdirAll, MarshalIndent of the whole of t.data, WriteFile of the
\* temporary file
SaveWrite(c, d) ==
    \E out \in {"mkdir", "write", "torn", "ok"} :
        /\ \/ /\ out = "mkdir"
              /\ UNCHANGED <<file, tmp>>
              /\ pc' = "ret"
              /\ call' = [c EXCEPT !.err = "err"]
           \/ /\ out \in {"write", "torn"}
              /\ LET w == WriteTemp(file, tmp,
                                    IF out = "torn" THEN Partial ELSE tmp)
                 IN file' = w.file /\ tmp' = w.tmp
              /\ pc' = "ret"
              /\ call' = [c EXCEPT !.err = "err", !.writes = 1]
           \/ /\ out = "ok"
              /\ LET w == WriteTemp(file, tmp, Marshal(d))
                 IN file' = w.file /\ tmp' = w.tmp
              /\ pc' = "saving"
              /\ call' = [c EXCEPT !.err = "pending", !.writes = 1]

\* Tracker.MarkFetched, up to the write of the temporary file
MarkFetchedCall ==
    /\ UNCHANGED wireVars
    /\ pc = "idle"
    /\ \E m \in Mailboxes, u \in UIDs :
        /\ data' = Insert(data, m, u)
        /\ SaveWrite([NoCall EXCEPT !.op = "MarkFetched", !.m = m,
                                    !.uids = <<u>>],
                     Insert(data, m, u))
    /\ UNCHANGED <<lastRenamed, loaded, pipeVars>>

\* Tracker.MarkBatchFetched, up to the write of the temporary file
MarkBatchFetchedCall ==
    /\ UNCHANGED wireVars
    /\ pc = "idle"
    /\ \E m \in Mailboxes, uids \in Batches :
        /\ data' = InsertBatch(data, m, uids)
        /\ SaveWrite([NoCall EXCEPT !.op = "MarkBatchFetched", !.m = m,
                                    !.uids = uids],
                     InsertBatch(data, m, uids))
    /\ UNCHANGED <<lastRenamed, loaded, pipeVars>>

\* Tracker.save, lines 148-152, and the return of the call that saved; when
\* os.Rename fails the temporary file stays where it is
TrackerRename ==
    /\ UNCHANGED wireVars
    /\ pc = "saving"
    /\ \E ok \in BOOLEAN :
        /\ IF ok
           THEN /\ LET w == Rename(file, tmp)
                   IN file' = w.file /\ tmp' = w.tmp
                /\ lastRenamed' = tmp
                /\ call' = [call EXCEPT !.err = "nil"]
           ELSE /\ file' = file
                /\ tmp' = LeftOver
                /\ lastRenamed' = lastRenamed
                /\ call' = [call EXCEPT !.err = "err"]
    /\ pc' = "ret"
    /\ UNCHANGED <<data, loaded, pipeVars>>

\* the caller has the result and goes on
Return ==
    /\ UNCHANGED wireVars
    /\ pc = "ret"
    /\ pc' = "idle"
    /\ call' = NoCall
    /\ UNCHANGED <<storeVars, loaded, pipeVars>>

\* the process exits or is killed; a kill inside os.WriteFile can leave a
\* torn temporary file, a kill between WriteFile and Rename a complete one
TrackerExit ==
    /\ UNCHANGED wireVars
    /\ pc \in {"idle", "saving", "ret"}
    /\ pc' = "stopped"
    /\ data' = EmptyMap
    /\ call' = NoCall
    /\ \E torn \in BOOLEAN :
        LET w == IF torn THEN WriteTemp(file, tmp, Partial)
                 ELSE IF pc = "saving" THEN [file |-> file, tmp |-> LeftOver]
                 ELSE [file |-> file, tmp |-> tmp]
        IN file' = w.file /\ tmp' = w.tmp
    /\ UNCHANGED <<lastRenamed, loaded, pipeVars>>

NextStore ==
    \/ NewTrackerCall
    \/ IsFetchedCall
    \/ StatsCall
    \/ MarkFetchedCall
    \/ MarkBatchFetchedCall
    \/ TrackerRename
    \/ Return
    \/ TrackerExit

\* the state file at the start: absent, or present with content that does
\* not deserialize; every document save can write is reached from these
InitStore ==
    /\ pc = "stopped"
    /\ mbIdx = 1
    /\ data = EmptyMap
    /\ file \in {Absent, Partial}
    /\ lastRenamed = file
    /\ tmp = Absent
    /\ server = [m \in Mailboxes |-> << >>]
    /\ conn = "none"
    /\ flagged = {}
    /\ uidMap = << >>
    /\ msgNums = << >>
    /\ idx = 1
    /\ fetched = 0
    /\ errors = 0
    /\ totalFetched = 0
    /\ totalErrors = 0
    /\ exitCode = -1
    /\ ops = << >>
    /\ quitDelivered = FALSE
    /\ skipped = {}
    /\ abort = "none"
    /\ sentNow = {}
    /\ sentBefore = {}
    /\ seenInStore = {}
    /\ committed = {}
    /\ loaded = EmptyMap
    /\ lastRun = [m \in Mailboxes |-> Untracked]
    /\ call = NoCall
    /\ retr = NoRetr
    /\ sess = NoSess
    /\ xf = NoXf
    /\ trk = NoTrk

SpecStore == InitStore /\ [][NextStore]_vars

\* --------------------------------------------- Client.Retrieve, line by line
\* The server answers RETR with a status line and then sends lines; the
\* client reads them one by one with ReadString('\n').  A line is the
\* sequence of its characters, CRLF included.

Chars == {".", "x"}
CRLF == <<"\r", "\n">>
Terminator == <<".">> \o CRLF

SeqsUpTo(S, n) == UNION {[1..k -> S] : k \in 0..n}

\* the lines of a message
MsgLines == {c \o CRLF : c \in SeqsUpTo(Chars, MaxLineLen)}

RECURSIVE TrimRight(_)
\* strings.TrimRight(line, "\r\n")
TrimRight(l) ==
    IF l # << >> /\ l[Len(l)] \in {"\r", "\n"}
    THEN TrimRight(SubSeq(l, 1, Len(l) - 1))
    ELSE l

\* strings.HasPrefix
HasPrefix(l, p) == Len(l) >= Len(p) /\ SubSeq(l, 1, Len(p)) = p

IsTerminator_prefix(l) == HasPrefix(TrimRight(l), <<".">>)
\* Retrieve, lines 109-112: the trimmed line is "."
IsTerminator(l) == TrimRight(l) = <<".">>

Unstuff_none(l) == l
\* Retrieve, lines 114-116: a line whose trimmed form starts with ".."
\* loses its first character
Unstuff(l) ==
    IF HasPrefix(TrimRight(l), <<".", ".">>) THEN SubSeq(l, 2, Len(l)) ELSE l

\* byte-stuffing by the server: a line that begins with the terminator
\* character gets one more in front
Stuff(l) == IF HasPrefix(l, <<".">>) THEN <<".">> \o l ELSE l

\* a message as the server sends it: stuffed lines, then the terminator line
WireOf(msg) == [k \in 1..Len(msg) |-> Stuff(msg[k])] \o <<Terminator>>

\* Retrieve, lines 98-100: command("RETR n"); an error is returned with no
\* content
RetrCommand ==
    /\ retr.st = "start"
    /\ \E r \in Resp :
        retr' = IF readResponse(r)
                THEN [retr EXCEPT !.resp = r, !.st = "body"]
                ELSE [retr EXCEPT !.resp = r, !.st = "done", !.err = "err"]
    /\ UNCHANGED <<pc, storeVars, loaded, pipeVars, apiVars, sess, xf, trk>>

\* Retrieve, lines 103-118, one turn of the loop: ReadString fails when the
\* stream has ended, the terminator line ends the loop, any other line is
\* unstuffed and written to the builder; line 120 returns the builder
RetrReadLine ==
    /\ retr.st = "body"
    /\ retr' =
         IF retr.pos > Len(retr.wire)
         THEN [retr EXCEPT !.st = "done", !.err = "err"]
         ELSE IF IsTerminator(retr.wire[retr.pos])
         THEN [retr EXCEPT !.st = "done", !.err = "nil", !.out = retr.buf,
                           !.pos = @ + 1]
         ELSE [retr EXCEPT !.buf = Append(@, Unstuff(retr.wire[retr.pos])),
                           !.pos = @ + 1]
    /\ UNCHANGED <<pc, storeVars, loaded, pipeVars, apiVars, sess, xf, trk>>

NextRetr ==
    \/ RetrCommand
    \/ RetrReadLine

\* the streams: a stuffed message with its terminator line ("stuffed"), the
\* same cut before the terminator line ("cut"), or any lines at all ("any")
Streams ==
    {[NoRetr EXCEPT !.kind = "stuffed", !.msg = m, !.wire = WireOf(m),
                    !.st = "start"] : m \in SeqsUpTo(MsgLines, MaxLines)}
    \cup
    UNION {{[NoRetr EXCEPT !.kind = "cut", !.msg = m,
                          !.wire = SubSeq(WireOf(m), 1, n), !.st = "start"] :
              n \in 0..Len(m)} : m \in SeqsUpTo(MsgLines, MaxLines)}
    \cup
    {[NoRetr EXCEPT !.kind = "any", !.wire = w, !.st = "start"] :
        w \in SeqsUpTo(MsgLines, MaxLines)}

InitRetr ==
    /\ pc = "stopped"
    /\ mbIdx = 1
    /\ data = EmptyMap
    /\ file = Absent
    /\ lastRenamed = Absent
    /\ tmp = Absent
    /\ server = [m \in Mailboxes |-> << >>]
    /\ conn = "none"
    /\ flagged = {}
    /\ uidMap = << >>
    /\ msgNums = << >>
    /\ idx = 1
    /\ fetched = 0
    /\ errors = 0
    /\ totalFetched = 0
    /\ totalErrors = 0
    /\ exitCode = -1
    /\ ops = << >>
    /\ quitDelivered = FALSE
    /\ skipped = {}
    /\ abort = "none"
    /\ sentNow = {}
    /\ sentBefore = {}
    /\ seenInStore = {}
    /\ committed = {}
    /\ loaded = EmptyMap
    /\ lastRun = [m \in Mailboxes |-> Untracked]
    /\ call = NoCall
    /\ retr \in Streams
    /\ sess = NoSess
    /\ xf = NoXf
    /\ trk = NoTrk

SpecRetr == InitRetr /\ [][NextRetr]_vars

\* every variable at its value before any call
AllOff ==
    /\ pc = "stopped"
    /\ mbIdx = 1
    /\ data = EmptyMap
    /\ file = Absent
    /\ lastRenamed = Absent
    /\ tmp = Absent
    /\ server = [m \in Mailboxes |-> << >>]
    /\ conn = "none"
    /\ flagged = {}
    /\ uidMap = << >>
    /\ msgNums = << >>
    /\ idx = 1
    /\ fetched = 0
    /\ errors = 0
    /\ totalFetched = 0
    /\ totalErrors = 0
    /\ exitCode = -1
    /\ ops = << >>
    /\ quitDelivered = FALSE
    /\ skipped = {}
    /\ abort = "none"
    /\ sentNow = {}
    /\ sentBefore = {}
    /\ seenInStore = {}
    /\ committed = {}
    /\ loaded = EmptyMap
    /\ lastRun = [m \in Mailboxes |-> Untracked]
    /\ call = NoCall
    /\ retr = NoRetr
    /\ sess = NoSess
    /\ xf = NoXf
    /\ trk = NoTrk

\* ------------------------------------------------ pop3.Client, call by call
\* Dial, Login, UIDList and Quit called on one Client, in any order the
\* transport allows.  The server is free: it answers every command with any
\* line, or with none, and sends any lines as a listing.

\* the status tokens of readResponse, lines 168 and 171
PosToken == <<"+", "O", "K">>
NegToken == <<"-", "E", "R", "R">>

\* ReadString returned an error before a whole line arrived
NoLine == << >>

\* the lines a server may answer with, and no line at all
RespLines ==
    {PosToken \o CRLF, PosToken \o <<" ", "x">> \o CRLF,
     NegToken \o <<" ", "x">> \o CRLF, <<"O", "K">> \o CRLF, NoLine}

\* Client.readResponse on the line read: the outcome its caller sees
ResponseOf(l) ==
    IF l = NoLine THEN "ioerr"
    ELSE IF HasPrefix(TrimRight(l), PosToken) THEN "ok"
    ELSE IF HasPrefix(TrimRight(l), NegToken) THEN "err"
    ELSE "malformed"

\* position of the first space of a line, 0 when it has none
FirstSpace(l) ==
    IF \E k \in 1..Len(l) : l[k] = " "
    THEN CHOOSE k \in 1..Len(l) : l[k] = " " /\ \A j \in 1..(k - 1) : l[j] # " "
    ELSE 0

\* strings.SplitN(line, " ", 2)
SplitN(l) ==
    IF FirstSpace(l) = 0 THEN <<l>>
    ELSE <<SubSeq(l, 1, FirstSpace(l) - 1), SubSeq(l, FirstSpace(l) + 1, Len(l))>>

Digits == <<"0", "1", "2", "3", "4", "5", "6", "7", "8", "9">>
DigitVal(c) == (CHOOSE k \in DOMAIN Digits : Digits[k] = c) - 1

RECURSIVE Decimal(_)
\* the number written by a sequence of digits
Decimal(d) ==
    IF d = << >> THEN 0
    ELSE 10 * Decimal(SubSeq(d, 1, Len(d) - 1)) + DigitVal(d[Len(d)])

Atoi_zeroOnError(t) ==
    LET d == IF t # << >> /\ t[1] \in {"+", "-"} THEN Tail(t) ELSE t
        good == d # << >> /\ \A k \in DOMAIN d : d[k] \in Range(Digits)
    IN IF good
       THEN [ok |-> TRUE,
             val |-> IF t[1] = "-" THEN 0 - Decimal(d) ELSE Decimal(d)]
       ELSE [ok |-> TRUE, val |-> 0]
\* strconv.Atoi: an optional sign, then one digit or more
Atoi(t) ==
    LET d == IF t # << >> /\ t[1] \in {"+", "-"} THEN Tail(t) ELSE t
        good == d # << >> /\ \A k \in DOMAIN d : d[k] \in Range(Digits)
    IN IF good
       THEN [ok |-> TRUE,
             val |-> IF t[1] = "-" THEN 0 - Decimal(d) ELSE Decimal(d)]
       ELSE [ok |-> FALSE, val |-> 0]

\* UIDList, lines 82-90: the map after one line of the block
ParseEntry(result, line) ==
    LET parts == SplitN(line)
    IN IF Len(parts) # 2 THEN result
       ELSE IF ~Atoi(parts[1]).ok THEN result
       ELSE [x \in DOMAIN result \cup {Atoi(parts[1]).val} |->
                IF x = Atoi(parts[1]).val THEN parts[2] ELSE result[x]]

\* the lines of a listing: what stands before the first space, the space or
\* not, and the rest
NumTexts == {<< >>, <<"1">>, <<"2">>}
TokTexts == {<< >>, <<"a">>, <<"a", " ", "a">>}
ListLines ==
    {n \o sp \o t \o CRLF : n \in NumTexts, sp \in {<< >>, <<" ">>}, t \in TokTexts}

\* what the server sends after its answer to UIDL: lines, with the terminator
\* line after them or with the stream ending instead
ListStreams ==
    UNION {{w \o <<Terminator>>, w} : w \in SeqsUpTo(ListLines, MaxLines)}

\* pop3.Dial: the TLS connection, then the greeting through readResponse; a
\* greeting that readResponse rejects closes the connection
DialCall ==
    /\ sess.st = "idle"
    /\ sess.conn \in {"none", "closed"}
    /\ \E connected \in BOOLEAN, g \in RespLines :
        sess' =
          IF ~connected
          THEN [NoSess EXCEPT !.op = "Dial", !.st = "ret", !.err = "err",
                             !.conn = "none"]
          ELSE IF ~readResponse(ResponseOf(g))
          THEN [NoSess EXCEPT !.op = "Dial", !.st = "ret", !.err = "err",
                             !.conn = "closed", !.lines = <<g>>]
          ELSE [NoSess EXCEPT !.op = "Dial", !.st = "ret", !.err = "nil",
                             !.conn = "open", !.lines = <<g>>]
    /\ UNCHANGED <<pc, storeVars, loaded, pipeVars, apiVars, retr, xf, trk>>

\* Client.Login: command("USER ..."), then command("PASS ...") unless the
\* first returned an error
LoginCall ==
    /\ sess.st = "idle"
    /\ sess.conn = "open"
    /\ \E u \in RespLines, p \in RespLines :
        sess' =
          IF ~readResponse(ResponseOf(u))
          THEN [NoSess EXCEPT !.op = "Login", !.st = "ret", !.err = "err",
                             !.conn = sess.conn, !.sent = <<"USER">>,
                             !.lines = <<u>>]
          ELSE [NoSess EXCEPT !.op = "Login", !.st = "ret",
                             !.err = IF readResponse(ResponseOf(p))
                                     THEN "nil" ELSE "err",
                             !.conn = sess.conn, !.sent = <<"USER", "PASS">>,
                             !.lines = <<u, p>>]
    /\ UNCHANGED <<pc, storeVars, loaded, pipeVars, apiVars, retr, xf, trk>>

\* Client.UIDList, lines 68-72: command("UIDL"); an error returns a nil map
UIDListCall ==
    /\ sess.st = "idle"
    /\ sess.conn = "open"
    /\ \E r \in RespLines, w \in ListStreams :
        sess' =
          IF ~readResponse(ResponseOf(r))
          THEN [NoSess EXCEPT !.op = "UIDList", !.st = "ret", !.err = "err",
                             !.conn = sess.conn, !.sent = <<"UIDL">>,
                             !.lines = <<r>>, !.wire = w]
          ELSE [NoSess EXCEPT !.op = "UIDList", !.st = "list",
                             !.conn = sess.conn, !.sent = <<"UIDL">>,
                             !.lines = <<r>>, !.wire = w, !.isNil = FALSE]
    /\ UNCHANGED <<pc, storeVars, loaded, pipeVars, apiVars, retr, xf, trk>>

\* UIDList, lines 73-93, one turn of the loop: a failed read returns a nil
\* map, the line "." ends the block, any other line goes through the parse
UIDListReadLine ==
    /\ sess.st = "list"
    /\ sess' =
         IF sess.pos > Len(sess.wire)
         THEN [sess EXCEPT !.st = "ret", !.err = "err", !.result = << >>,
                           !.isNil = TRUE]
         ELSE IF TrimRight(sess.wire[sess.pos]) = <<".">>
         THEN [sess EXCEPT !.st = "ret", !.err = "nil", !.pos = @ + 1]
         ELSE [sess EXCEPT !.pos = @ + 1,
                           !.result = ParseEntry(@, TrimRight(sess.wire[sess.pos]))]
    /\ UNCHANGED <<pc, storeVars, loaded, pipeVars, apiVars, retr, xf, trk>>

\* Client.Quit: command("QUIT"), its result dropped, then conn.Close()
QuitCall ==
    /\ sess.st = "idle"
    /\ sess.conn = "open"
    /\ \E r \in RespLines :
        sess' = [NoSess EXCEPT !.op = "Quit", !.st = "ret", !.err = "nil",
                              !.conn = "closed", !.sent = <<"QUIT">>,
                              !.lines = <<r>>]
    /\ UNCHANGED <<pc, storeVars, loaded, pipeVars, apiVars, retr, xf, trk>>

\* the call returns to its caller
SessReturn ==
    /\ sess.st = "ret"
    /\ sess' = [NoSess EXCEPT !.conn = sess.conn]
    /\ UNCHANGED <<pc, storeVars, loaded, pipeVars, apiVars, retr, xf, trk>>

NextSess ==
    \/ DialCall
    \/ LoginCall
    \/ UIDListCall
    \/ UIDListReadLine
    \/ QuitCall
    \/ SessReturn

InitSess == AllOff

SpecSess == InitSess /\ [][NextSess]_vars

\* ------------------------------------------------------------- Sender.Send
\* A raw message is its header fields in order, each <<name, value>>, and a
\* body, which Send copies as it is and which is left out here.  The output
\* is the sequence of header fields written to the buffer.

Dest == "gmail"                     \* Sender.to
SourceId == Yahoo[1]                \* the originalFrom argument: yahoo.Email

HdrNames == {"From", "Reply-To", "X-A", "x-b"}
HdrValues == {"", "v", "w"}
Fields == HdrNames \X HdrValues
RawHeaders == SeqsUpTo(Fields, MaxHdrs)

\* textproto.CanonicalMIMEHeaderKey, as mail.ReadMessage applies it to the
\* name of every field: upper case at the start and after "-", else lower
Canon(n) ==
    IF n = "x-b" THEN "X-B"
    ELSE IF n = "MIME-Version" THEN "Mime-Version"
    ELSE n

\* mail.ReadMessage: the header as a map from canonical key to the values
\* of the fields with that key, in the order of the message
Header(raw) ==
    [k \in {Canon(raw[i][1]) : i \in DOMAIN raw} |->
        LET own == SelectSeq(raw, LAMBDA f : Canon(f[1]) = k)
        IN [i \in DOMAIN own |-> own[i][2]]]

\* mail.Header.Get: the first value of the key, "" when the key is absent
Get(h, k) == IF Canon(k) \in DOMAIN h THEN h[Canon(k)][1] ELSE ""

\* a header line written only if the value is not empty
Opt(n, v) == IF v # "" THEN <<<<n, v>>>> ELSE << >>

ReplyTo_originalSender(origReplyTo, origFrom) ==
    IF origFrom # "" THEN <<<<"Reply-To", origFrom>>>>
    ELSE IF origReplyTo # "" THEN <<<<"Reply-To", origReplyTo>>>>
    ELSE << >>
\* Send, lines 83-87
ReplyTo(origReplyTo, origFrom) ==
    IF origReplyTo # "" THEN <<<<"Reply-To", origReplyTo>>>>
    ELSE IF origFrom # "" THEN <<<<"Reply-To", origFrom>>>>
    ELSE << >>

\* Send, lines 108-113
Handled ==
    {"From", "To", "Subject", "Date", "Message-Id", "Cc", "Reply-To",
     "Content-Type", "Content-Transfer-Encoding", "Mime-Version"}

\* the orders in which a range over a map with keys K can yield them
KeyOrders(K) ==
    {o \in [1..Cardinality(K) -> K] : \A i, j \in DOMAIN o : i # j => o[i] # o[j]}

RECURSIVE Remaining(_, _, _)
\* Send, lines 114-121: the keys in the order of the range, skipping the
\* handled ones; under each key its values in order
Remaining(h, order, i) ==
    IF i > Len(order) THEN << >>
    ELSE (IF order[i] \in Handled THEN << >>
          ELSE [j \in DOMAIN h[order[i]] |-> <<order[i], h[order[i]][j]>>])
         \o Remaining(h, order, i + 1)

\* Send, lines 46-121: the header lines written for a parsed message
Forwarded(h, order) ==
    <<<<"From", Dest>>, <<"To", Dest>>>>
    \o Opt("Subject", Get(h, "Subject"))
    \o Opt("Date", Get(h, "Date"))
    \o Opt("X-Original-From", Get(h, "From"))
    \o Opt("Resent-From", Get(h, "From"))
    \o Opt("X-Original-To", Get(h, "To"))
    \o Opt("X-Original-Cc", Get(h, "Cc"))
    \o ReplyTo(Get(h, "Reply-To"), Get(h, "From"))
    \o Opt("X-Original-Message-Id", Get(h, "Message-Id"))
    \o <<<<"X-YaToGm-Source", SourceId>>, <<"X-Mailer", "YaToGm/1.0">>>>
    \o Opt("MIME-Version", Get(h, "MIME-Version"))
    \o Opt("Content-Type", Get(h, "Content-Type"))
    \o Opt("Content-Transfer-Encoding", Get(h, "Content-Transfer-Encoding"))
    \o Remaining(h, order, 1)

\* sendRaw, lines 137-143: two marker headers, then the raw bytes
Wrapped(raw) ==
    <<<<"X-YaToGm-Source", SourceId>>,
      <<"X-YaToGm-Note", "original message could not be parsed">>>> \o raw

\* one call of Send on the message; the range over msg.Header yields the
\* keys in an order the runtime chooses at each call
SendCall ==
    /\ xf.st = "on"
    /\ Len(xf.outs) < MaxSends
    /\ IF xf.parsable
       THEN \E order \in KeyOrders(DOMAIN Header(xf.hdrs)) :
               xf' = [xf EXCEPT !.outs =
                         Append(@, Forwarded(Header(xf.hdrs), order))]
       ELSE xf' = [xf EXCEPT !.outs = Append(@, Wrapped(xf.hdrs))]
    /\ UNCHANGED <<pc, storeVars, loaded, pipeVars, apiVars, retr, sess, trk>>

NextSend == SendCall

Messages ==
    {[NoXf EXCEPT !.st = "on", !.parsable = b, !.hdrs = r] :
        b \in BOOLEAN, r \in RawHeaders}

InitSend ==
    /\ pc = "stopped"
    /\ mbIdx = 1
    /\ data = EmptyMap
    /\ file = Absent
    /\ lastRenamed = Absent
    /\ tmp = Absent
    /\ server = [m \in Mailboxes |-> << >>]
    /\ conn = "none"
    /\ flagged = {}
    /\ uidMap = << >>
    /\ msgNums = << >>
    /\ idx = 1
    /\ fetched = 0
    /\ errors = 0
    /\ totalFetched = 0
    /\ totalErrors = 0
    /\ exitCode = -1
    /\ ops = << >>
    /\ quitDelivered = FALSE
    /\ skipped = {}
    /\ abort = "none"
    /\ sentNow = {}
    /\ sentBefore = {}
    /\ seenInStore = {}
    /\ committed = {}
    /\ loaded = EmptyMap
    /\ lastRun = [m \in Mailboxes |-> Untracked]
    /\ call = NoCall
    /\ retr = NoRetr
    /\ sess = NoSess
    /\ xf \in Messages
    /\ trk = NoTrk

SpecSend == InitSend /\ [][NextSend]_vars

\* ----------------------------- the tracker on a state file it did not write
\* json.Unmarshal into StateData accepts every JSON object.  A missing or
\* null "mailboxes" leaves Mailboxes a nil map; a null mailbox entry is a nil
\* *MailboxState; an entry without "fetched_uids", or with null for it, has
\* a nil FetchedUIDs map.  Every UID a document lists has the value true.

\* map[string]bool: nil, or the set of keys it holds
NilUIDs == [isNil |-> TRUE, uids |-> {}]
MakeUIDs(S) == [isNil |-> FALSE, uids |-> S]

\* *MailboxState: nil, or a pointer to a MailboxState
NilEntry == [isNil |-> TRUE, FetchedUIDs |-> NilUIDs]
MailboxState(fu) == [isNil |-> FALSE, FetchedUIDs |-> fu]

\* the values json.Unmarshal can give StateData.Mailboxes
Entries ==
    {NilEntry} \cup {MailboxState(fu) :
                        fu \in {NilUIDs} \cup {MakeUIDs(S) : S \in SUBSET UIDs}}
Documents ==
    {NilMailboxes} \cup
    {MakeMailboxes(e) : e \in UNION {[D -> Entries] : D \in SUBSET Mailboxes}}

\* Tracker.load, lines 123-125: sd replaces t.data when sd.Mailboxes != nil
loadDocument(doc, d) == IF doc.isNil THEN d ELSE doc

\* lines 53-57: a missing key is false; ms.FetchedUIDs dereferences ms, which
\* panics when the entry is nil; the read of a nil map gives false
IsFetchedGo(d, m, u) ==
    IF m \notin DOMAIN d.entries THEN [panic |-> FALSE, ret |-> FALSE]
    ELSE IF d.entries[m].isNil THEN [panic |-> TRUE, ret |-> FALSE]
    ELSE [panic |-> FALSE, ret |-> u \in d.entries[m].FetchedUIDs.uids]

\* lines 65-71 and 83-89: a missing key gets a new MailboxState with an
\* empty, non-nil map; a key that is present keeps its entry, nil or not
EnsureGo(d, m) ==
    IF m \in DOMAIN d.entries THEN d
    ELSE MakeMailboxes([x \in DOMAIN d.entries \cup {m} |->
                           IF x = m THEN MailboxState(MakeUIDs({}))
                           ELSE d.entries[x]])

\* ms.FetchedUIDs[uid] = true, lines 73 and 92: the dereference of a nil ms
\* panics, and so does the assignment to an entry of a nil map
SetFetched(d, m, u) ==
    LET ms == d.entries[m]
    IN IF ms.isNil \/ ms.FetchedUIDs.isNil THEN [panic |-> TRUE, data |-> d]
       ELSE [panic |-> FALSE,
             data |-> MakeMailboxes([d.entries EXCEPT ![m] =
                         MailboxState(MakeUIDs(ms.FetchedUIDs.uids \cup {u}))])]

RECURSIVE SetFetchedFrom(_, _, _, _)
\* the loop of lines 91-93, from position k of uids
SetFetchedFrom(d, m, uids, k) ==
    IF k > Len(uids) THEN [panic |-> FALSE, data |-> d]
    ELSE LET r == SetFetched(d, m, uids[k])
         IN IF r.panic THEN r ELSE SetFetchedFrom(r.data, m, uids, k + 1)

\* Stats, lines 103-106: v.FetchedUIDs dereferences v; len of a nil map is 0
StatsGo(d) ==
    IF \E k \in DOMAIN d.entries : d.entries[k].isNil
    THEN [panic |-> TRUE, stats |-> EmptyMap]
    ELSE [panic |-> FALSE,
          stats |-> [k \in DOMAIN d.entries |->
                        Cardinality(d.entries[k].FetchedUIDs.uids)]]

\* NewTracker on the document in the file; a read error other than "not
\* exist" makes it return an error and no tracker
DocNewTracker ==
    /\ trk.st \in {"file", "panic"}
    /\ \E readOk \in BOOLEAN :
        trk' = IF readOk
               THEN [trk EXCEPT !.st = "live", !.op = "NewTracker",
                       !.data = loadDocument(trk.doc, MakeMailboxes(EmptyMap)),
                       !.m = "", !.uids = << >>, !.out = "nil", !.ret = FALSE]
               ELSE [trk EXCEPT !.st = "file", !.op = "NewTracker",
                       !.data = NilMailboxes,
                       !.m = "", !.uids = << >>, !.out = "err", !.ret = FALSE]
    /\ UNCHANGED <<pc, storeVars, loaded, pipeVars, apiVars, retr, sess, xf>>

\* a runtime panic ends the process; otherwise the call returns
Outcome(t, panic, out) ==
    IF panic THEN [t EXCEPT !.st = "panic", !.out = "panic"]
    ELSE [t EXCEPT !.out = out]

\* Tracker.IsFetched
DocIsFetched ==
    /\ trk.st = "live"
    /\ \E m \in Mailboxes, u \in UIDs :
        LET r == IsFetchedGo(trk.data, m, u)
        IN trk' = Outcome([trk EXCEPT !.op = "IsFetched", !.m = m,
                                      !.uids = <<u>>, !.ret = r.ret],
                          r.panic, "nil")
    /\ UNCHANGED <<pc, storeVars, loaded, pipeVars, apiVars, retr, sess, xf>>

\* the rest of MarkFetched and MarkBatchFetched once the UIDs are set:
\* t.save() replaces the document in the file by t.data, nil entries and nil
\* maps written as null, or fails and leaves the file as it was
SaveDocument(t, r) ==
    IF r.panic THEN {Outcome(t, TRUE, "panic")}
    ELSE {[t EXCEPT !.data = r.data, !.doc = r.data, !.out = "nil"],
          [t EXCEPT !.data = r.data, !.out = "err"]}

\* Tracker.MarkFetched
DocMarkFetched ==
    /\ trk.st = "live"
    /\ \E m \in Mailboxes, u \in UIDs :
        trk' \in SaveDocument([trk EXCEPT !.op = "MarkFetched", !.m = m,
                                          !.uids = <<u>>, !.ret = FALSE],
                              SetFetched(EnsureGo(trk.data, m), m, u))
    /\ UNCHANGED <<pc, storeVars, loaded, pipeVars, apiVars, retr, sess, xf>>

\* Tracker.MarkBatchFetched
DocMarkBatchFetched ==
    /\ trk.st = "live"
    /\ \E m \in Mailboxes, uids \in Batches :
        trk' \in SaveDocument([trk EXCEPT !.op = "MarkBatchFetched", !.m = m,
                                          !.uids = uids, !.ret = FALSE],
                              SetFetchedFrom(EnsureGo(trk.data, m), m, uids, 1))
    /\ UNCHANGED <<pc, storeVars, loaded, pipeVars, apiVars, retr, sess, xf>>

\* Tracker.Stats
DocStats ==
    /\ trk.st = "live"
    /\ trk' = Outcome([trk EXCEPT !.op = "Stats", !.m = "", !.uids = << >>,
                                  !.ret = FALSE],
                      StatsGo(trk.data).panic, "nil")
    /\ UNCHANGED <<pc, storeVars, loaded, pipeVars, apiVars, retr, sess, xf>>

NextDoc ==
    \/ DocNewTracker
    \/ DocIsFetched
    \/ DocMarkFetched
    \/ DocMarkBatchFetched
    \/ DocStats

\* the state file holds any document that deserializes
InitDoc ==
    /\ pc = "stopped"
    /\ mbIdx = 1
    /\ data = EmptyMap
    /\ file = Absent
    /\ tmp = Absent
    /\ server = [m \in Mailboxes |-> << >>]
    /\ conn = "none"
    /\ flagged = {}
    /\ uidMap = << >>
    /\ msgNums = << >>
    /\ idx = 1
    /\ fetched = 0
    /\ errors = 0
    /\ totalFetched = 0
    /\ totalErrors = 0
    /\ exitCode = -1
    /\ ops = << >>
    /\ quitDelivered = FALSE
    /\ skipped = {}
    /\ abort = "none"
    /\ sentNow = {}
    /\ sentBefore = {}
    /\ seenInStore = {}
    /\ committed = {}
    /\ lastRenamed = Absent
    /\ loaded = EmptyMap
    /\ lastRun = [m \in Mailboxes |-> Untracked]
    /\ call = NoCall
    /\ retr = NoRetr
    /\ sess = NoSess
    /\ xf = NoXf
    /\ trk \in {[NoTrk EXCEPT !.st = "file", !.doc = doc] : doc \in Documents}

SpecDoc == InitDoc /\ [][NextDoc]_vars

TypeOK ==
    /\ mbIdx \in DOMAIN Yahoo
    /\ fetched \in 0..MaxMsgs
    /\ errors \in 0..MaxMsgs
    /\ file.kind \in {"absent", "doc"}
    /\ \A m \in Mailboxes : Range(server[m]) \subseteq UIDs

\* ------------------------------------------------------------- properties
Chain == {"RETR", "SEND", "MARK", "DELE"}

HasOp(o, n, k) == \E j \in DOMAIN ops : ops[j] = Ev(o, n, k)

OpsOf(n) == SelectSeq(ops, LAMBDA e : e.num = n)

FullChain(n) ==
    <<Ev("RETR", n, TRUE), Ev("SEND", n, TRUE), Ev("MARK", n, TRUE),
      Ev("DELE", n, TRUE)>>

InStore(d, m, u) == m \in DOMAIN d /\ u \in d[m]

SentEver == sentNow \cup sentBefore

FailedOps == {k \in DOMAIN ops : ops[k].op \in Chain /\ ~ops[k].ok}

\* message numbers whose turn in the loop is over
Visited == {msgNums[k] : k \in 1..(idx - 1)}

ListingDone == \E k \in DOMAIN ops : ops[k] = Ev("UIDL", 0, TRUE)

EndsWithQuitClose ==
    /\ Len(ops) >= 2
    /\ ops[Len(ops) - 1].op = "QUIT"
    /\ ops[Len(ops)] = Ev("CLOSE", 0, TRUE)

\* C1: within a mailbox session, DELE is issued for a message only after
\* MarkFetched for that message has returned success; the process is at the
\* Delete step, and the server holds a deletion flag, only for such a message.
C1_DeleAfterRecord ==
    /\ \A k \in DOMAIN ops :
         ops[k].op = "DELE" =>
            \E j \in 1..(k - 1) : ops[j] = Ev("MARK", ops[k].num, TRUE)
    /\ pc = "dele" => HasOp("MARK", CurNum, TRUE)
    /\ \A n \in flagged : HasOp("MARK", n, TRUE)

\* C1 witness: in one session a MarkFetched has failed for one message and
\* DELE has been issued for another
C1_Witness ==
    \E j, k \in DOMAIN ops :
        /\ ops[j].op = "MARK" /\ ~ops[j].ok
        /\ ops[k].op = "DELE"

\* C2: every UID in the tracker's memory, in the canonical state file or in
\* a complete temporary file belongs to a message for which Send had returned
\* success; MarkFetched is called for a message only after its Retrieve and
\* its Send succeeded.
C2_HistoryForwarded ==
    /\ \A m \in Mailboxes : \A u \in UIDs :
         (InStore(data, m, u) \/ u \in FileUIDs(file, m) \/ u \in FileUIDs(tmp, m))
            => <<m, u>> \in SentEver
    /\ \A k \in DOMAIN ops :
         ops[k].op = "MARK" =>
            \E i, j \in 1..(k - 1) :
                /\ i < j
                /\ ops[i] = Ev("RETR", ops[k].num, TRUE)
                /\ ops[j] = Ev("SEND", ops[k].num, TRUE)
    /\ pc \in {"mark", "rename"} =>
         HasOp("RETR", CurNum, TRUE) /\ HasOp("SEND", CurNum, TRUE)

\* C2 witness: a UID is in the canonical file while a Send has failed in the
\* current session
C2_Witness ==
    /\ \E m \in Mailboxes : FileUIDs(file, m) # {}
    /\ \E k \in DOMAIN ops : ops[k] .op = "SEND" /\ ~ops[k].ok

CrashStateInv ==
    /\ file = lastRenamed
    /\ \A c \in committed :
         c[2] \in FileUIDs(file, c[1]) /\ c \in SentEver

KillStep ==
    (pc # "stopped" /\ pc # "finish" /\ pc' = "stopped")
        => (file' = file /\ server' = server /\ committed' = committed)

\* C3: at every step, and after a kill at any step, the canonical state file
\* holds exactly the content of the last save whose rename completed, and
\* every message the server has expunged has its UID in the canonical file
\* and was forwarded; a kill changes neither the canonical file nor any
\* maildrop.
C3_CrashSafety == [] CrashStateInv /\ [][KillStep]_vars

\* C3 witness: the process was killed inside a save (torn temporary file)
\* after an earlier session's deletions had been committed
C3_Witness ==
    /\ pc = "stopped"
    /\ exitCode = 137
    /\ tmp = Partial
    /\ committed # {}

\* C4: a failed step is the last operation issued for its message; each
\* failed step adds exactly one to the mailbox's error count; the mailbox is
\* not aborted, and when processMailbox returns every listed message has had
\* its turn.
C4_FailureIsolation ==
    /\ \A k \in FailedOps : \A j \in DOMAIN ops : j > k => ops[j].num # ops[k].num
    /\ \A n \in DOMAIN uidMap :
         Cardinality({k \in FailedOps : ops[k].num = n}) <= 1
    /\ ListingDone /\ pc # "stopped" =>
         /\ errors = Cardinality(FailedOps)
         /\ abort = "none"
    /\ ListingDone /\ pc \in {"quit", "returned"} =>
         \A n \in DOMAIN uidMap :
             n \in skipped \/ (\E k \in DOMAIN ops : ops[k].op = "RETR" /\ ops[k].num = n)

\* C4 witness: Send failed for message 1 and the session went on to retrieve
\* message 2
C4_Witness ==
    /\ pc = "returned"
    /\ HasOp("SEND", 1, FALSE)
    /\ HasOp("RETR", 2, TRUE)
    /\ errors = 1

C6_HistoryFiltering ==
    /\ pc # "stopped" =>
         \A n \in Visited :
            IF InStore(loaded, CurMb, uidMap[n])
            THEN n \in skipped /\ OpsOf(n) = << >>
            ELSE n \notin skipped /\ OpsOf(n) # << >> /\ OpsOf(n)[1].op = "RETR"
    /\ \A k \in DOMAIN ops :
         ops[k].op = "SEND" => HasOp("RETR", ops[k].num, TRUE)
    /\ ListingDone /\ pc # "stopped" =>
         /\ fetched = Cardinality({k \in DOMAIN ops : ops[k].op = "DELE" /\ ops[k].ok})
         /\ errors = Cardinality(FailedOps)
    /\ (pc = "returned" /\ abort = "none" /\ FailedOps = {}) =>
         /\ \A n \in DOMAIN uidMap \ skipped : OpsOf(n) = FullChain(n)
         /\ fetched = Cardinality(DOMAIN uidMap \ skipped)
         /\ errors = 0

\* C6 witness: of two listed messages the first was in the store and was
\* skipped, the second was forwarded, recorded and flagged; the result is (1, 0)
C6_Witness ==
    /\ pc = "returned"
    /\ Len(msgNums) = 2
    /\ skipped = {1}
    /\ ops = <<Ev("USER", 0, TRUE), Ev("PASS", 0, TRUE), Ev("UIDL", 0, TRUE)>>
               \o FullChain(2) \o <<Ev("QUIT", 0, TRUE), Ev("CLOSE", 0, TRUE)>>
    /\ fetched = 1
    /\ errors = 0

\* C7: a message that an earlier run forwarded and whose UID is not in the
\* state file is still on the server when the next run starts; the next run
\* loads a store without that UID, does not skip the message, and has the
\* UID in its store or the message off the server only after forwarding it
\* again.
C7_AtLeastOnceGap ==
    \A m \in Mailboxes : \A u \in UIDs :
        <<m, u>> \in sentBefore =>
            /\ (pc = "stopped" /\ u \notin FileUIDs(file, m)) =>
                  u \in Range(server[m])
            /\ (pc # "stopped" /\ ~InStore(loaded, m, u)) =>
                  /\ u \in Range(server[m]) \/ <<m, u>> \in sentNow
                  /\ InStore(data, m, u) => <<m, u>> \in sentNow
                  /\ m = CurMb => \A n \in DOMAIN uidMap :
                                     uidMap[n] = u => n \notin skipped

\* C7 witness: a message forwarded by an earlier run has been forwarded again
C7_Witness ==
    \E m \in Mailboxes : \E u \in UIDs :
        /\ <<m, u>> \in sentBefore
        /\ <<m, u>> \in sentNow
        /\ ~InStore(loaded, m, u)

\* C8: when processMailbox returns after a connection, authentication or
\* listing failure the result is (0, 1) and no message operation was issued;
\* each such failure does abort.
C8_MailboxAbort ==
    pc = "returned" =>
        /\ abort # "none" =>
              /\ fetched = 0
              /\ errors = 1
              /\ \A k \in DOMAIN ops : ops[k].op \notin Chain
              /\ flagged = {}
              /\ skipped = {}
              /\ \A u \in UIDs : InStore(data, CurMb, u) => InStore(loaded, CurMb, u)
        /\ (\E k \in DOMAIN ops : ops[k].op \in {"USER", "PASS", "UIDL"} /\ ~ops[k].ok)
              => abort \in {"login", "uidl"}
        /\ conn = "none" => abort = "connect"

\* C8 witness: the listing failed for a maildrop that holds messages
C8_Witness ==
    /\ pc = "returned"
    /\ abort = "uidl"
    /\ server[CurMb] # << >>
    /\ errors = 1

\* C9 (as stated): after an authentication or listing failure the transport
\* is closed without QUIT having been sent.
C9_AbortedCloseAsStated ==
    (pc = "returned" /\ abort \in {"login", "uidl"})
        => /\ conn = "closed"
           /\ \A k \in DOMAIN ops : ops[k].op # "QUIT"

AbortedState ==
    (pc = "returned" /\ abort \in {"login", "uidl"})
        => /\ conn = "closed"
           /\ EndsWithQuitClose
           /\ flagged = {}
           /\ \A k \in DOMAIN ops : ops[k].op # "DELE"

AbortedQuitStep ==
    (pc = "quit" /\ abort # "none")
        => (server' = server /\ committed' = committed)

\* C9 (amended): after an authentication or listing failure the session is
\* closed by the deferred Quit: QUIT is sent, its result ignored, and the
\* transport is closed; no deletion flag was set and the Quit commits no
\* deletion.
C9_AbortedClose == [] AbortedState /\ [][AbortedQuitStep]_vars

\* C9 witness: the login failed and processMailbox has returned
C9_Witness ==
    /\ pc = "returned"
    /\ abort = "login"
    /\ quitDelivered

\* C10: when the listing succeeded the session ends with QUIT followed by
\* the close of the transport, whatever the number of per-message errors; a
\* server that received the QUIT has expunged every flagged message; a
\* failed QUIT changes neither the result nor the close.
C10_CleanClose ==
    (pc = "returned" /\ ListingDone)
        => /\ EndsWithQuitClose
           /\ conn = "closed"
           /\ abort = "none"
           /\ errors = Cardinality(FailedOps)
           /\ quitDelivered =>
                \A n \in flagged :
                    /\ <<CurMb, uidMap[n]>> \in committed
                    /\ uidMap[n] \notin Range(server[CurMb])

\* C10 witness: a session with one per-message error and one flagged message
\* ended with an acknowledged QUIT
C10_Witness ==
    /\ pc = "returned"
    /\ ListingDone
    /\ errors = 1
    /\ flagged # {}
    /\ quitDelivered
    /\ HasOp("QUIT", 0, TRUE)

RunCountersInv ==
    /\ pc = "finish" => mbIdx = Len(Yahoo)
    /\ (mbIdx = 1 /\ pc # "finish") => (totalErrors = 0 /\ totalFetched = 0)
    /\ pc = "stopped" => exitCode \in {-1, 0, 1, 137}

RunResultStep ==
    /\ (pc = "returned" /\ pc' # "stopped") =>
          /\ totalErrors' = totalErrors + errors
          /\ IF mbIdx < Len(Yahoo)
             THEN pc' = "dial" /\ mbIdx' = mbIdx + 1
             ELSE pc' = "finish"
    /\ (pc = "finish" /\ pc' = "stopped" /\ exitCode' # 137) =>
          /\ exitCode' \in {0, 1}
          /\ exitCode' = 1 <=> totalErrors > 0

\* C11: Run adds every mailbox's error count to the total and goes on to
\* the next configured mailbox whatever the counts of the one that returned;
\* it returns only after the last mailbox; it returns an error, and the
\* process exits with 1, exactly when the total error count is greater than
\* zero, whatever the forwarded count.
C11_RunResult == [] RunCountersInv /\ [][RunResultStep]_vars

\* C11 witness: the first mailbox had an error, the second was processed and
\* forwarded a message, and Run is about to return
C11_Witness ==
    /\ pc = "finish"
    /\ totalErrors = 1
    /\ errors = 0
    /\ totalFetched = 1
    /\ fetched = 1

\* C12 (as stated): the forwarded count of a mailbox, and of the run, is the
\* number of messages whose Send succeeded.
C12_ForwardedTotalAsStated ==
    /\ (pc = "returned" /\ abort = "none") =>
          fetched = Cardinality({k \in DOMAIN ops : ops[k].op = "SEND" /\ ops[k].ok})
    /\ pc = "finish" => totalFetched = Cardinality(sentNow)

ForwardedCountInv ==
    /\ pc \in {"loop", "quit", "returned"} =>
          fetched = Cardinality({n \in DOMAIN uidMap : OpsOf(n) = FullChain(n)})
    /\ pc = "finish" => totalFetched <= Cardinality(sentNow)
    /\ (mbIdx = 1 /\ pc # "finish") => totalFetched = 0

ForwardedSumStep ==
    (pc = "returned" /\ pc' # "stopped") => totalFetched' = totalFetched + fetched

\* C12 (amended): the forwarded count of a mailbox is the number of its
\* messages for which Retrieve, Send, MarkFetched and Delete all succeeded,
\* and the run's forwarded count is the sum of these over the mailboxes; a
\* message whose MarkFetched or Delete failed after a successful Send is not
\* counted.
C12_ForwardedTotal == [] ForwardedCountInv /\ [][ForwardedSumStep]_vars

\* C12 witness: two messages were forwarded in the run, the Delete of one of
\* them failed, and the run's forwarded count is 1
C12_Witness ==
    /\ pc = "finish"
    /\ Cardinality(sentNow) = 2
    /\ totalFetched = 1
    /\ \E k \in DOMAIN ops : ops[k].op = "DELE" /\ ~ops[k].ok

\* ---------------------------------------- properties of the state tracker
Pairs == Mailboxes \X UIDs

Returned(o) == pc = "ret" /\ call.op = o
MarkOps == {"MarkFetched", "MarkBatchFetched"}

\* the step is the successful return of a call that saved
SavedStep == pc = "saving" /\ pc' = "ret" /\ call'.err = "nil"

AtomicSaveStep ==
    /\ file' # file =>
          /\ SavedStep
          /\ file' = Marshal(data)
          /\ tmp = Marshal(data)
    /\ (pc \in {"idle", "saving"} /\ pc' \in {"ret", "stopped"} /\ ~SavedStep)
          => file' = file
    /\ file'.kind \in {"partial", "leftover"} => file' = file
    /\ (pc = "stopped" /\ pc' = "ret" /\ file.kind = "doc")
          => data' = file.mailboxes

\* C13: the canonical file changes only in the rename that ends a save, and
\* then to the complete document of the tracker's whole state; a save that
\* fails in MkdirAll, in WriteFile or in Rename, and a process that dies at
\* any point of a save, leave the canonical file as it was; no step puts a
\* torn or left-over document under the canonical name; NewTracker reads a
\* canonical document back as it is.
C13_AtomicPersistence == [] (file = lastRenamed) /\ [][AtomicSaveStep]_vars

\* C13 witness: a process died inside a save, leaving a torn or unrenamed
\* temporary file, and the next process has loaded the prior content
C13_Witness ==
    /\ Returned("NewTracker")
    /\ call.err = "nil"
    /\ tmp \in {Partial, LeftOver}
    /\ file.kind = "doc"
    /\ data = file.mailboxes
    /\ \E m \in Mailboxes : FileUIDs(file, m) # {}

DurableAddInv ==
    (Returned("MarkFetched") /\ call.err = "nil") =>
        /\ call.writes = 1
        /\ file = Marshal(data)
        /\ call.uids[1] \in FileUIDs(file, call.m)
        /\ IsFetched(data, call.m, call.uids[1])

DurableAddStep ==
    /\ \A q \in Pairs : q[2] \in FileUIDs(file, q[1]) => q[2] \in FileUIDs(file', q[1])
    /\ (pc = "stopped" /\ pc' = "ret") =>
          \A q \in Pairs : q[2] \in FileUIDs(file, q[1]) => IsFetched(data', q[1], q[2])
    /\ (call'.op = "MarkFetched" /\ call'.err = "nil") => (SavedStep \/ call' = call)

\* C14: MarkFetched returns nil only from the rename that ends its save;
\* the canonical file is then the document of the whole current state and
\* holds (mailbox, uid), and IsFetched is true for it on this tracker; a
\* pair in the canonical file stays in it, and a tracker created later by
\* NewTracker has IsFetched true for every pair of the canonical file.
C14_DurableAdd == [] DurableAddInv /\ [][DurableAddStep]_vars

\* C14 witness: MarkFetched has returned nil on a tracker whose file
\* already held another pair
C14_Witness ==
    /\ Returned("MarkFetched")
    /\ call.err = "nil"
    /\ \E q \in Pairs : q # <<call.m, call.uids[1]>> /\ q[2] \in FileUIDs(file, q[1])

LoadRecoveryStep ==
    /\ (pc = "stopped" /\ call'.op = "NewTracker") =>
          /\ call'.err \in {"nil", "read"}
          /\ file.kind = "absent" => call'.err = "nil"
          /\ (call'.err = "nil" /\ file.kind \in {"absent", "partial"}) =>
                /\ pc' = "ret"
                /\ \A q \in Pairs : ~IsFetched(data', q[1], q[2])
    /\ (SavedStep /\ file.kind \in {"absent", "partial"}) =>
          /\ file'.kind = "doc"
          /\ \A u \in Range(call.uids) :
                u \in FileUIDs(file', call.m) /\ IsFetched(data', call.m, u)

\* C15: NewTracker returns an error only when the file exists and cannot be
\* read; on an absent file, and on a file whose content does not
\* deserialize, it returns a tracker for which IsFetched is false for every
\* pair; a MarkFetched or MarkBatchFetched on such a tracker that returns
\* nil has replaced the absent or unreadable content by a document holding
\* the inserted pairs.
C15_LoadRecovery == [][LoadRecoveryStep]_vars

\* C15 witness: on a tracker loaded from a file that does not deserialize,
\* MarkFetched has written its temporary file and is about to rename it
C15_Witness ==
    /\ pc = "saving"
    /\ file = Partial
    /\ call.op = "MarkFetched"
    /\ tmp = Marshal(data)

MonotonicStep ==
    /\ (pc # "stopped" /\ pc' # "stopped") =>
          \A q \in Pairs : IsFetched(data, q[1], q[2]) => IsFetched(data', q[1], q[2])
    /\ lastRenamed' # lastRenamed =>
          \A m \in Mailboxes : FileUIDs(lastRenamed, m) \subseteq FileUIDs(lastRenamed', m)

\* C16: on one tracker no call makes IsFetched false for a pair for which
\* it was true, and every document a save renames into place holds every
\* pair of the document renamed before it.
C16_MonotonicHistory == [][MonotonicStep]_vars

\* C16 witness: a second save has completed on a tracker: the file holds at
\* least two pairs of one mailbox and the call that saved added one of them
C16_Witness ==
    /\ pc = "ret"
    /\ call.op \in MarkOps
    /\ call.err = "nil"
    /\ Len(call.uids) = 1
    /\ Cardinality(FileUIDs(file, call.m)) >= 2

BatchAddInv ==
    call.op = "MarkBatchFetched" =>
        /\ \A u \in Range(call.uids) : IsFetched(data, call.m, u)
        /\ call.m \in DOMAIN data
        /\ call.writes <= 1
        /\ call.err \in {"nil", "pending"} => call.writes = 1
        /\ (pc = "ret" /\ call.err = "nil") =>
              /\ file = Marshal(data)
              /\ \A u \in Range(call.uids) : u \in FileUIDs(file, call.m)

BatchAddStep ==
    (call.op = "MarkBatchFetched" /\ call' = call) => file' = file

\* C17: MarkBatchFetched inserts every UID of the batch, whatever its
\* length, before it saves; it writes the temporary file at most once, and
\* once when it returns nil; the canonical file changes once, in the rename
\* that ends the call, and then holds every UID of the batch.
C17_BatchAdd == [] BatchAddInv /\ [][BatchAddStep]_vars

\* C17 witness: a batch of two different UIDs has been saved
C17_Witness ==
    /\ Returned("MarkBatchFetched")
    /\ call.err = "nil"
    /\ Len(call.uids) = 2
    /\ call.uids[1] # call.uids[2]

StoreFrameStep ==
    /\ (pc = "idle" /\ call'.op = "MarkFetched") =>
          /\ IsFetched(data', call'.m, call'.uids[1])
          /\ \A q \in Pairs :
                q # <<call'.m, call'.uids[1]>> =>
                    (IsFetched(data', q[1], q[2]) <=> IsFetched(data, q[1], q[2]))
    /\ (pc = "idle" /\ call'.op \in {"IsFetched", "Stats"}) =>
          /\ data' = data
          /\ file' = file
          /\ tmp' = tmp
    /\ (pc = "idle" /\ call'.op = "IsFetched") =>
          (call'.ret <=> (call'.m \in DOMAIN data /\ call'.uids[1] \in data[call'.m]))

StatsInv ==
    Returned("Stats") =>
        \A m \in Mailboxes :
            LET n == Cardinality({u \in UIDs : IsFetched(data, m, u)})
            IN IF m \in DOMAIN call.stats THEN call.stats[m] = n ELSE n = 0

\* C18: MarkFetched(m, u) makes IsFetched true for (m, u) and leaves it as
\* it was for every other pair; IsFetched and Stats change neither the
\* tracker's memory nor the canonical or the temporary file; Stats returns,
\* for each mailbox, the number of UIDs for which IsFetched is true.
C18_StoreFrame == [] StatsInv /\ [][StoreFrameStep]_vars

\* C18 witness: Stats has returned 2 for one mailbox and 1 for the other
C18_Witness ==
    /\ Returned("Stats")
    /\ DOMAIN call.stats = Mailboxes
    /\ call.stats["m1"] = 2
    /\ call.stats["m2"] = 1

\* ------------------------------------------- properties of Client.Retrieve
Dot2 == <<".", ".">>

\* C19 (as stated): every line that was sent with two terminator characters
\* in front is in the builder with exactly one terminator character at its
\* start.
C19_DotUnstuffingAsStated ==
    \A k \in 1..Len(retr.buf) :
        HasPrefix(retr.wire[k], Dot2) =>
            /\ retr.buf[k][1] = "."
            /\ retr.buf[k][2] # "."

\* C19 (amended): every line that was sent with two or more terminator
\* characters in front is in the builder with exactly one of them removed
\* (one is left when exactly two were sent), every other line is there as it
\* was sent, and the terminator line of the stream is not in the builder:
\* the content returned is made of the lines before it.
C19_DotUnstuffing ==
    /\ \A k \in 1..Len(retr.buf) :
          /\ IF HasPrefix(retr.wire[k], Dot2)
             THEN /\ retr.buf[k] = Tail(retr.wire[k])
                  /\ retr.wire[k] = <<".">> \o retr.buf[k]
             ELSE retr.buf[k] = retr.wire[k]
          /\ retr.wire[k] # Terminator
    /\ Len(retr.buf) <= Len(retr.wire)
    /\ (retr.st = "done" /\ retr.err = "nil") =>
          /\ retr.out = retr.buf
          /\ retr.wire[Len(retr.buf) + 1] = Terminator

\* C19 witness: a stream with a line of three terminator characters and a
\* line of two has been read to its terminator line
C19_Witness ==
    /\ retr.st = "done"
    /\ retr.err = "nil"
    /\ \E j, k \in 1..Len(retr.out) :
          /\ retr.wire[j] = <<".", ".", ".">> \o CRLF
          /\ retr.wire[k] = Dot2 \o CRLF

\* C20: when the server sends a message byte-stuffed and followed by the
\* terminator line and the status line was not an error, Retrieve returns
\* exactly the lines of the message, in order; when the status line is
\* negative or cannot be read, or when the stream ends before the terminator
\* line, Retrieve returns an error and no content.
C20_FetchRoundTrip ==
    retr.st = "done" =>
        /\ (retr.kind = "stuffed" /\ readResponse(retr.resp)) =>
              /\ retr.err = "nil"
              /\ retr.out = retr.msg
        /\ retr.kind = "cut" =>
              /\ retr.err = "err"
              /\ retr.out = << >>
        /\ ~readResponse(retr.resp) =>
              /\ retr.err = "err"
              /\ retr.out = << >>
              /\ retr.buf = << >>

\* C20 witness: a message with a line that is one terminator character and
\* a line of two has been retrieved
C20_Witness ==
    /\ retr.st = "done"
    /\ retr.kind = "stuffed"
    /\ retr.err = "nil"
    /\ retr.msg = <<<<".">> \o CRLF, Dot2 \o CRLF>>

\* ---------------------------------------------------------------- listing
IsEndLine(l) == TrimRight(l) = <<".">>

HasEnd(w) == \E k \in DOMAIN w : IsEndLine(w[k])

\* the lines that precede the terminator line, without their line endings
BlockOf(w) ==
    LET e == CHOOSE k \in DOMAIN w :
                 IsEndLine(w[k]) /\ \A j \in 1..(k - 1) : ~IsEndLine(w[j])
    IN [k \in 1..(e - 1) |-> TrimRight(w[k])]

IsIntegerText(t) ==
    LET d == IF t # << >> /\ t[1] \in {"+", "-"} THEN Tail(t) ELSE t
    IN d # << >> /\ \A k \in DOMAIN d : d[k] \in Range(Digits)

IntegerOf(t) ==
    IF t[1] = "-" THEN 0 - Decimal(Tail(t))
    ELSE IF t[1] = "+" THEN Decimal(Tail(t))
    ELSE Decimal(t)

\* "<integer> <token>": an integer, one space, and the token, which is the
\* rest of the line
MatchesEntry(t) ==
    \E k \in 1..Len(t) : t[k] = " " /\ IsIntegerText(SubSeq(t, 1, k - 1))

SpaceOf(t) ==
    CHOOSE k \in 1..Len(t) : t[k] = " " /\ IsIntegerText(SubSeq(t, 1, k - 1))

NumberOf(t) == IntegerOf(SubSeq(t, 1, SpaceOf(t) - 1))
TokenOf(t) == SubSeq(t, SpaceOf(t) + 1, Len(t))

\* C21 (Listing): when UIDList returns, it has failed with a nil map if the
\* answer to UIDL was negative or could not be read, or if the stream ended
\* before a terminator line; otherwise it has succeeded, whatever lines the
\* block holds, and its map has exactly the sequence numbers of the lines
\* before the terminator line that match "<integer> <token>", each with the
\* token of the last such line that carries the number.
C21_Listing ==
    (sess.op = "UIDList" /\ sess.st = "ret") =>
        LET r == ResponseOf(sess.lines[1])
            bad == r \in {"err", "ioerr"} \/ ~HasEnd(sess.wire)
        IN /\ bad => (sess.err = "err" /\ sess.isNil)
           /\ ~bad =>
                LET b == BlockOf(sess.wire)
                    M == {k \in DOMAIN b : MatchesEntry(b[k])}
                IN /\ sess.err = "nil"
                   /\ ~sess.isNil
                   /\ DOMAIN sess.result = {NumberOf(b[k]) : k \in M}
                   /\ \A k \in M :
                        (\A j \in M : j > k => NumberOf(b[j]) # NumberOf(b[k]))
                            => sess.result[NumberOf(b[k])] = TokenOf(b[k])

\* UIDList returned a map with an entry from a block that also holds a line
\* of another form
C21_Witness ==
    /\ sess.op = "UIDList"
    /\ sess.st = "ret"
    /\ sess.err = "nil"
    /\ Cardinality(DOMAIN sess.result) = 1
    /\ \E k \in DOMAIN BlockOf(sess.wire) : ~MatchesEntry(BlockOf(sess.wire)[k])

\* ------------------------------------------------------------------- open
\* C22 (Open): when Dial returns, it has returned a session only if the
\* greeting was a positive status response, and it has failed and closed
\* the transport if the greeting was negative or began with neither status
\* token.
C22_Open ==
    (sess.op = "Dial" /\ sess.st = "ret") =>
        /\ sess.err = "nil" =>
              /\ sess.conn = "open"
              /\ sess.lines # << >>
              /\ ResponseOf(sess.lines[1]) = "ok"
        /\ (sess.lines # << >> /\ ResponseOf(sess.lines[1]) \in {"err", "malformed"})
              => (sess.err = "err" /\ sess.conn = "closed")

\* ----------------------------------------------------------- authenticate
\* C23 (Authenticate): when Login returns, it has sent the identity step
\* and, after it, at most the secret step; it has failed if either step was
\* answered negatively; it has succeeded only if both steps were answered
\* positively; it has not sent the secret after a negative answer to the
\* identity step; and after a failure the connection is still open.
C23_Authenticate ==
    (sess.op = "Login" /\ sess.st = "ret") =>
        /\ sess.sent \in {<<"USER">>, <<"USER", "PASS">>}
        /\ (\E k \in DOMAIN sess.lines : ResponseOf(sess.lines[k]) = "err")
              => sess.err = "err"
        /\ sess.err = "nil" =>
              /\ Len(sess.lines) = 2
              /\ \A k \in 1..2 : ResponseOf(sess.lines[k]) = "ok"
        /\ ResponseOf(sess.lines[1]) = "err" => sess.sent = <<"USER">>
        /\ sess.err = "err" => sess.conn = "open"

\* -------------------------------------------------------- bounded blocking
\* C24 (Bounded blocking): whatever a peer does, silence included, a run
\* that has started eventually terminates.
C24_BoundedBlocking == (pc # "stopped") ~> (pc = "stopped")

\* ------------------------------------------------------- no in-run retry
OpsFor(o, n) == {k \in DOMAIN ops : ops[k].op = o /\ ops[k].num = n}

\* message numbers whose Retrieve or Send failed in this session
FailedForward ==
    {ops[k].num : k \in {j \in DOMAIN ops :
                            ops[j].op \in {"RETR", "SEND"} /\ ~ops[j].ok}}

\* C25 (No in-run retry, retry by next run): in one session every message
\* number has at most one Retrieve and at most one Send; a message whose
\* Retrieve or Send failed has no MarkFetched and no Delete, is not flagged
\* and its UID is neither in the tracker nor in the state file; and in the
\* run after one in which the mailbox was processed to the end, every UID
\* whose Retrieve or Send had failed is listed again, is never skipped, and
\* has its Retrieve issued once the loop has passed it.
C25_NoInRunRetry ==
    /\ \A n \in DOMAIN uidMap :
          /\ Cardinality(OpsFor("RETR", n)) <= 1
          /\ Cardinality(OpsFor("SEND", n)) <= 1
    /\ \A n \in FailedForward :
          /\ OpsFor("MARK", n) = {}
          /\ OpsFor("DELE", n) = {}
          /\ n \notin flagged
          /\ ~IsFetched(data, CurMb, uidMap[n])
          /\ uidMap[n] \notin FileUIDs(file, CurMb)
    /\ (pc \notin {"stopped", "finish"} /\ ListingDone
            /\ lastRun[CurMb].ended = "done") =>
          \A u \in lastRun[CurMb].failed :
              \E n \in DOMAIN uidMap :
                  /\ uidMap[n] = u
                  /\ n \notin skipped
                  /\ n \in Visited => OpsFor("RETR", n) # {}

\* a run has issued Retrieve for a message whose Retrieve or Send failed in
\* the run before it, and a Retrieve or Send has failed in this run too
C25_Witness ==
    /\ pc \notin {"stopped", "finish"}
    /\ lastRun[CurMb].ended = "done"
    /\ \E n \in DOMAIN uidMap :
          /\ uidMap[n] \in lastRun[CurMb].failed
          /\ OpsFor("RETR", n) # {}
    /\ FailedForward # {}

\* --------------------------------------------------------- ascending order
\* C26 (Ascending order): the message numbers of a session are visited in
\* strictly ascending order: msgNums is strictly increasing, and every
\* Retrieve, Send, MarkFetched, Delete and skip so far concerns a number
\* that is not above the one the loop stands at, the operations appearing in
\* the order of their numbers.
C26_AscendingOrder ==
    /\ \A i, j \in DOMAIN msgNums : i < j => msgNums[i] < msgNums[j]
    /\ \A i, j \in DOMAIN ops :
          (i < j /\ ops[i].op \in Chain /\ ops[j].op \in Chain)
              => ops[i].num <= ops[j].num
    /\ \A k \in DOMAIN ops :
          ops[k].op \in Chain =>
              /\ ops[k].num \in Range(msgNums)
              /\ \A i \in DOMAIN msgNums :
                    i > idx => ops[k].num < msgNums[i]
    /\ \A n \in skipped : \A i \in DOMAIN msgNums : i >= idx => n < msgNums[i]

\* the first message went through its whole chain and the second is at Send
C26_Witness ==
    /\ pc = "send"
    /\ Len(msgNums) = 2
    /\ idx = 2
    /\ HasOp("DELE", msgNums[1], TRUE)
    /\ HasOp("RETR", msgNums[2], TRUE)

\* --------------------------------------------------------------- transform
\* the fields of the original that Send does not handle by name
Unhandled(raw) == SelectSeq(raw, LAMBDA f : Canon(f[1]) \notin Handled)

\* the last n fields of an output
LastFields(out, n) == SubSeq(out, Len(out) - n + 1, Len(out))

\* C27 (Transform determinism and header order): two calls of Send on the
\* same message and source mailbox give the same output, and the output of
\* a parsed message ends with the original's unhandled header fields, names
\* and values unchanged, in the order they have in the original.
C27_TransformDeterminism ==
    /\ \A i, j \in DOMAIN xf.outs : xf.outs[i] = xf.outs[j]
    /\ xf.parsable =>
          \A i \in DOMAIN xf.outs :
              LastFields(xf.outs[i], Len(Unhandled(xf.hdrs))) = Unhandled(xf.hdrs)

\* ------------------------------------------------------ sender preservation
HasField(raw, k) == \E i \in DOMAIN raw : Canon(raw[i][1]) = k

\* the value of the first field of the original with key k
FirstValue(raw, k) ==
    raw[CHOOSE i \in DOMAIN raw :
            Canon(raw[i][1]) = k /\ \A j \in 1..(i - 1) : Canon(raw[j][1]) # k][2]

ValuesOf(out, n) == SelectSeq(out, LAMBDA f : f[1] = n)

\* C28 as stated (Sender preservation): a From header of the original, and
\* a From or Reply-To of the original, are taken to be there whatever their
\* value.
C28_SenderPreservationAsStated ==
    xf.parsable =>
        \A i \in DOMAIN xf.outs :
            LET out == xf.outs[i]
            IN /\ ValuesOf(out, "From") = <<<<"From", Dest>>>>
               /\ ValuesOf(out, "To") = <<<<"To", Dest>>>>
               /\ HasField(xf.hdrs, "From") =>
                     /\ ValuesOf(out, "X-Original-From")
                            = <<<<"X-Original-From", FirstValue(xf.hdrs, "From")>>>>
                     /\ ValuesOf(out, "Resent-From")
                            = <<<<"Resent-From", FirstValue(xf.hdrs, "From")>>>>
               /\ (HasField(xf.hdrs, "From") \/ HasField(xf.hdrs, "Reply-To")) =>
                     ValuesOf(out, "Reply-To") =
                        <<<<"Reply-To",
                            IF HasField(xf.hdrs, "Reply-To")
                            THEN FirstValue(xf.hdrs, "Reply-To")
                            ELSE FirstValue(xf.hdrs, "From")>>>>

\* header k of the original is there with a value: its first field has one
Present(raw, k) == HasField(raw, k) /\ FirstValue(raw, k) # ""

\* C28 (Sender preservation): for every parsed message the output has one
\* From and one To, both the destination address; if the original has a
\* From header with a value, that value is in X-Original-From and in
\* Resent-From; and if the original has a From or a Reply-To with a value,
\* the output has exactly one Reply-To, equal to the original Reply-To if
\* that has a value and to the original From otherwise.
C28_SenderPreservation ==
    xf.parsable =>
        \A i \in DOMAIN xf.outs :
            LET out == xf.outs[i]
            IN /\ ValuesOf(out, "From") = <<<<"From", Dest>>>>
               /\ ValuesOf(out, "To") = <<<<"To", Dest>>>>
               /\ Present(xf.hdrs, "From") =>
                     /\ ValuesOf(out, "X-Original-From")
                            = <<<<"X-Original-From", FirstValue(xf.hdrs, "From")>>>>
                     /\ ValuesOf(out, "Resent-From")
                            = <<<<"Resent-From", FirstValue(xf.hdrs, "From")>>>>
               /\ (Present(xf.hdrs, "From") \/ Present(xf.hdrs, "Reply-To")) =>
                     ValuesOf(out, "Reply-To") =
                        <<<<"Reply-To",
                            IF Present(xf.hdrs, "Reply-To")
                            THEN FirstValue(xf.hdrs, "Reply-To")
                            ELSE FirstValue(xf.hdrs, "From")>>>>

\* Send has forwarded a message that has a From and a Reply-To with
\* different values
C28_Witness ==
    /\ xf.parsable
    /\ xf.outs # << >>
    /\ Present(xf.hdrs, "From")
    /\ Present(xf.hdrs, "Reply-To")
    /\ FirstValue(xf.hdrs, "From") # FirstValue(xf.hdrs, "Reply-To")

\* ----------------------------------------------------------- failed persist
\* C29 (Failed persist leaves the store unchanged): when MarkFetched or
\* MarkBatchFetched has returned, with or without an error, the UIDs that
\* IsFetched reports are those of the canonical state file; a call whose
\* save failed has therefore left no UID in memory that the file lacks.
C29_FailedPersistUnchanged ==
    (\E o \in MarkOps : Returned(o)) =>
        \A m \in Mailboxes, u \in UIDs :
            IsFetched(data, m, u) <=> u \in FileUIDs(file, m)

\* ------------------------------------------ duplicates and the persistence gap
\* a step in which Send returns nil for the message the loop stands at
SendSucceeds ==
    /\ pc = "send"
    /\ Len(ops') = Len(ops) + 1
    /\ ops'[Len(ops')] = Ev("SEND", CurNum, TRUE)

DuplicateStep ==
    /\ \A m \in Mailboxes : FileUIDs(file, m) \subseteq FileUIDs(file', m)
    /\ SendSucceeds =>
          /\ <<CurMb, CurUID>> \notin sentNow
          /\ <<CurMb, CurUID>> \in sentBefore
                => CurUID \notin FileUIDs(file, CurMb)

\* C30 (Duplicates only through the persistence gap): over any sequence of
\* runs on one state file, which never loses a UID, a message that Send
\* forwards has not been forwarded before in this run, and if an earlier run
\* forwarded it, its UID is not in the canonical state file: no run has got
\* it there.
C30_DuplicatesOnlyThroughGap == [][DuplicateStep]_vars

\* a message forwarded by an earlier run has been forwarded again by this
\* run, which has then recorded it
C30_Witness ==
    \E p \in sentNow \cap sentBefore :
        /\ p[1] = CurMb
        /\ p[2] \in FileUIDs(file, CurMb)

\* ------------------------------------------------ the counters of a mailbox
\* listed message numbers counted as forwarded: Retrieve, Send, MarkFetched
\* and Delete were issued for them, in that order, and all returned nil
CountedForwarded == {n \in DOMAIN uidMap : OpsOf(n) = FullChain(n)}

\* listed message numbers for which a step failed
CountedError == {n \in DOMAIN uidMap : \E k \in FailedOps : ops[k].num = n}

\* C31: in a mailbox whose listing succeeded, the messages whose turn is over
\* are split into the skipped ones, the ones counted as forwarded and the
\* ones counted as one error each: the three sets are disjoint, fetched and
\* errors are the sizes of the last two, and a message is counted as
\* forwarded only when Retrieve, Send, MarkFetched and Delete all succeeded
\* for it; when the loop is over every listed message is in one of them, so
\* fetched + errors + skipped is the number of listed messages.
C31_CounterPartition ==
    (ListingDone /\ pc \in {"loop", "retr", "send", "mark", "rename", "dele",
                            "quit", "returned"}) =>
        /\ skipped \cap CountedForwarded = {}
        /\ skipped \cap CountedError = {}
        /\ CountedForwarded \cap CountedError = {}
        /\ skipped \cup CountedForwarded \cup CountedError = Visited
        /\ fetched = Cardinality(CountedForwarded)
        /\ errors = Cardinality(CountedError)
        /\ \A n \in CountedForwarded :
              /\ HasOp("RETR", n, TRUE) /\ HasOp("SEND", n, TRUE)
              /\ HasOp("MARK", n, TRUE) /\ HasOp("DELE", n, TRUE)
        /\ pc \in {"quit", "returned"} =>
              /\ Visited = DOMAIN uidMap
              /\ fetched + errors + Cardinality(skipped) = Len(msgNums)
              /\ Len(msgNums) = Cardinality(DOMAIN uidMap)

\* C31 witness: of two listed messages the first was skipped and the second
\* was forwarded and recorded but its Delete failed; processMailbox returns
\* (0, 1)
C31_Witness ==
    /\ pc = "returned"
    /\ Len(msgNums) = 2
    /\ skipped = {1}
    /\ HasOp("MARK", 2, TRUE)
    /\ HasOp("DELE", 2, FALSE)
    /\ fetched = 0
    /\ errors = 1

\* ------------------------------------------- recorded messages are left alone
\* the operation this step issued for a message, if it issued one
Issued == IF Len(ops') > Len(ops) /\ ops'[Len(ops')].op \in Chain
          THEN {ops'[Len(ops')].num} ELSE {}

\* a step that issues Retrieve, Send, MarkFetched or Delete, inserts into the
\* store or makes the server flag a message, does so for a message whose UID
\* no visit, of this run or of an earlier one, found in the store; and a
\* message whose UID was in the state file when the run started is not
\* flagged for deletion
TouchStep ==
    /\ \A n \in Issued : <<CurMb, uidMap[n]>> \notin seenInStore
    /\ (pc = "mark" /\ data' # data /\ pc' # "stopped") =>
          /\ <<CurMb, CurUID>> \notin seenInStore
          /\ ~InStore(loaded, CurMb, CurUID)
    /\ \A n \in flagged' \ flagged :
          /\ <<CurMb, uidMap[n]>> \notin seenInStore
          /\ ~InStore(loaded, CurMb, uidMap[n])

\* a UID found in the store at a visit is in the state file, and stays so
SeenIsDurable ==
    \A p \in seenInStore : p[2] \in FileUIDs(file, p[1])

\* C32: once IsFetched has found a message's UID in the store at its visit,
\* no Retrieve, Send, MarkFetched or Delete is issued for that message, in
\* that run or any later one; a message that was recorded and is still on the
\* server, because its Delete failed or its session did not end with a
\* delivered QUIT, is never flagged for deletion by a later run.
C32_RecordedNeverTouched == [] SeenIsDurable /\ [][TouchStep]_vars

\* C32 witness: message 1 was forwarded and recorded by an earlier run and
\* is still on the server; this run found its UID in the store, skipped it,
\* flagged nothing and closed the session with a delivered QUIT
C32_Witness ==
    /\ pc = "returned"
    /\ abort = "none"
    /\ 1 \in skipped
    /\ <<CurMb, uidMap[1]>> \in sentBefore \cap seenInStore
    /\ uidMap[1] \in FileUIDs(file, CurMb)
    /\ flagged = {}
    /\ quitDelivered
    /\ uidMap[1] \in Range(server[CurMb])

\* ------------------------------------------ a well-formed state file is usable
\* the UID of the last call is in the set of its mailbox in Tracker.data
Inserted ==
    /\ trk.m \in DOMAIN trk.data.entries
    /\ ~trk.data.entries[trk.m].isNil
    /\ trk.uids[1] \in trk.data.entries[trk.m].FetchedUIDs.uids

\* C33: on the tracker that NewTracker returns for any state file that
\* deserializes (the mailbox mapping missing or null, a mailbox entry null,
\* an entry without its UID set included), IsFetched, MarkFetched,
\* MarkBatchFetched and Stats complete without a panic, and after MarkFetched
\* the UID is in the set of its mailbox.
C33_WellFormedUsable ==
    /\ trk.out # "panic"
    /\ (trk.op = "MarkFetched" /\ trk.out \in {"nil", "err"}) => Inserted

====
